---- MODULE Spec2Model ----
(***************************************************************************)
(* The GML scene-language evaluator of go-raytracer (package gml) as a     *)
(* state machine.  One EvalState evaluates one program.  Go's recursion    *)
(* (Eval -> evalOneStep -> apply / array literal -> Eval) is kept as an    *)
(* explicit stack of Eval activations, `frames`.  Environments are Go maps,*)
(* i.e. references: they live in the heap `maps` and are named by their    *)
(* index, so that two closure values can share one map as they do in Go.   *)
(* Real numbers are restricted to integer-valued floats (exact under +).   *)
(***************************************************************************)
EXTENDS Integers, Sequences, FiniteSets, TLC

\* ------------------------------------------------------------------ bounds
MaxLen == 3      \* length of the generated programs
MaxDepth == 5    \* nesting depth of Eval activations that is explored
MaxOperands == 2 \* operands placed before a builtin in the builtin programs

\* ------------------------------------------------------------- token groups
IntLiteral(n) == [k |-> "IntLiteral", n |-> n]
FloatLiteral(n) == [k |-> "FloatLiteral", n |-> n]
BoolLiteral(b) == [k |-> "BoolLiteral", b |-> b]
StringLiteral(s) == [k |-> "StringLiteral", s |-> s]
Function(body) == [k |-> "Function", Body |-> body]
Binder(name) == [k |-> "Binder", Name |-> name]
Identifier(name) == [k |-> "Identifier", Name |-> name]
Array(elems) == [k |-> "Array", Elements |-> elems]
NoToken == [k |-> "none"]

\* ------------------------------------------------------------------- values
VInt(n) == [t |-> "VInt", n |-> n]
VReal(n) == [t |-> "VReal", n |-> n]
VBool(b) == [t |-> "VBool", b |-> b]
VString(s) == [t |-> "VString", s |-> s]
VClosure(code, env) == [t |-> "VClosure", Code |-> code, Env |-> env]
VArray(elems) == [t |-> "VArray", Elements |-> elems]
Point(x, y, z) == [t |-> "Point", X |-> x, Y |-> y, Z |-> z]
Sphere(c, r, fn) == [t |-> "Sphere", Center |-> c, Radius |-> r, SurfaceFn |-> fn]
Union(objs) == [t |-> "Union", Objects |-> objs]
PointLight(pos, col) == [t |-> "PointLight", Position |-> pos, Color |-> col]
RenderArgs(amb, lights, obj, depth, fov, width, height, file) ==
    [AmbientLight |-> amb, Lights |-> lights, Scene |-> obj, Depth |-> depth,
     Fov |-> fov, Width |-> width, Height |-> height, File |-> file]
NilValue == [t |-> "nil"]

\* Go type assertion v.(T); SceneObject is the interface of *Sphere and *Union.
HasType(v, T) ==
    IF T = "SceneObject" THEN v.t \in {"Sphere", "Union"} ELSE v.t = T

\* ------------------------------------------------------------- environments
EmptyEnv == [n \in {} |-> NilValue]
\* a write that builds the map anew from the one binding
SetBindingAlone(m, name, v) == [n \in {name} |-> v]

\* e.Env[name] = v
SetBinding(m, name, v) ==
    [n \in (DOMAIN m) \cup {name} |-> IF n = name THEN v ELSE m[n]]

\* ------------------------------------------------------------ stack helpers
push(stack, value) == Append(stack, value)

pop(stack) ==
    IF Len(stack) = 0
    THEN [err |-> "EmptyStack", val |-> NilValue, stack |-> stack]
    ELSE [err |-> "none", val |-> stack[Len(stack)],
          stack |-> SubSeq(stack, 1, Len(stack) - 1)]

\* a pop that reports every failure as an empty stack
popValueMismatchAsEmpty(stack, T) ==
    LET r == pop(stack) IN
    IF r.err # "none" THEN r
    ELSE IF ~HasType(r.val, T)
         THEN [err |-> "EmptyStack", val |-> NilValue, stack |-> r.stack]
         ELSE r

\* popValue[T]: pop, then the type assertion on what was popped
popValue(stack, T) ==
    LET r == pop(stack) IN
    IF r.err # "none" THEN r
    ELSE IF ~HasType(r.val, T)
         THEN [err |-> "TypeMismatch", val |-> NilValue, stack |-> r.stack]
         ELSE r

\* a pop3 that puts back what it popped when it fails
pop3Atomic(stack, T) ==
    LET rz == popValue(stack, T)
        ry == popValue(rz.stack, T)
        rx == popValue(ry.stack, T)
    IN  IF rz.err # "none" THEN [err |-> rz.err, x |-> NilValue, y |-> NilValue, z |-> NilValue, stack |-> stack]
        ELSE IF ry.err # "none" THEN [err |-> ry.err, x |-> NilValue, y |-> NilValue, z |-> rz.val, stack |-> stack]
        ELSE IF rx.err # "none" THEN [err |-> rx.err, x |-> NilValue, y |-> ry.val, z |-> rz.val, stack |-> stack]
        ELSE [err |-> "none", x |-> rx.val, y |-> ry.val, z |-> rz.val, stack |-> rx.stack]

\* pops z, then y, then x; stops at the first failure
pop3(stack, T) ==
    LET rz == popValue(stack, T)
        ry == popValue(rz.stack, T)
        rx == popValue(ry.stack, T)
    IN  IF rz.err # "none" THEN [err |-> rz.err, x |-> NilValue, y |-> NilValue, z |-> NilValue, stack |-> rz.stack]
        ELSE IF ry.err # "none" THEN [err |-> ry.err, x |-> NilValue, y |-> NilValue, z |-> rz.val, stack |-> ry.stack]
        ELSE IF rx.err # "none" THEN [err |-> rx.err, x |-> NilValue, y |-> ry.val, z |-> rz.val, stack |-> rx.stack]
        ELSE [err |-> "none", x |-> rx.val, y |-> ry.val, z |-> rz.val, stack |-> rx.stack]

\* --------------------------------------------------------- builtin registry
\* the registerBuiltin calls of init(), in order; "nil" is a nil Func
Registrations ==
    << <<"addi", "addi">>, <<"apply", "apply">>, <<"point", "nil">>,
       <<"cube", "nil">>, <<"sphere", "sphere">>, <<"plane", "nil">>,
       <<"point", "point">>, <<"pointlight", "pointlight">>,
       <<"translate", "translate">>, <<"uscale", "nil">>,
       <<"rotatex", "nil">>, <<"rotatey", "nil">>, <<"rotatez", "nil">>,
       <<"union", "union">>, <<"render", "render">> >>

BuiltinNames == {Registrations[i][1] : i \in DOMAIN Registrations}

\* builtins[name]: a later registration of a name replaces the earlier one
builtins ==
    [name \in BuiltinNames |->
        LET last == CHOOSE i \in DOMAIN Registrations :
                       /\ Registrations[i][1] = name
                       /\ \A j \in DOMAIN Registrations :
                              Registrations[j][1] = name => j <= i
        IN Registrations[last][2]]

\* a translation that places the centre at the offset
TranslateSphereToOffset(s, x, y, z) ==
    Sphere(Point(x.n, y.n, z.n), s.Radius, s.SurfaceFn)

\* (*Sphere).Translate: a new sphere, its centre offset from the receiver's
TranslateSphere(s, x, y, z) ==
    Sphere(Point(s.Center.X + x.n, s.Center.Y + y.n, s.Center.Z + z.n),
           s.Radius, s.SurfaceFn)

\* Translate of a SceneObject: a new object, the receiver is untouched
RECURSIVE Translate(_, _, _, _)
Translate(s, x, y, z) ==
    IF s.t = "Sphere"
    THEN TranslateSphere(s, x, y, z)
    ELSE Union([i \in DOMAIN s.Objects |-> Translate(s.Objects[i], x, y, z)])

\* ------------------------------------------------------------------ inputs
Lit1 == IntLiteral(1)
Lit2 == IntLiteral(2)
BodyDup == <<Binder("x"), Identifier("x"), Identifier("x")>>
BodyX == <<Identifier("x")>>

\* token groups of the generated programs
Alphabet ==
    { Lit1, Lit2, Binder("x"), Identifier("x"), Identifier("addi"),
      Identifier("apply"), Function(BodyDup), Function(BodyX),
      Array(<<Lit2, Identifier("x")>>), Binder("addi") }

GeneratedPrograms == UNION { [1..n -> Alphabet] : n \in 0..MaxLen }

\* 1 { /x x x } apply addi
ProgApply == <<Lit1, Function(BodyDup), Identifier("apply"), Identifier("addi")>>
\* 1 /x { x } /f 2 /x f apply x addi
ProgRebind ==
    <<Lit1, Binder("x"), Function(BodyX), Binder("f"), Lit2, Binder("x"),
      Identifier("f"), Identifier("apply"), Identifier("x"), Identifier("addi")>>
\* 1 [ 2 3 ] 4
ProgArray == <<Lit1, Array(<<Lit2, IntLiteral(3)>>), IntLiteral(4)>>
\* 1 [ /x ] 4
ProgArrayPop == <<Lit1, Array(<<Binder("x")>>), IntLiteral(4)>>
\* 1 [ 2 [ 3 addi ] 4 ] 5
ProgArrayNestedFail ==
    <<Lit1, Array(<<Lit2, Array(<<IntLiteral(3), Identifier("addi")>>), IntLiteral(4)>>),
      IntLiteral(5)>>
\* 1 [ 2 /x 3 addi ] 5
ProgArrayBindFail ==
    <<Lit1, Array(<<Lit2, Binder("x"), IntLiteral(3), Identifier("addi")>>),
      IntLiteral(5)>>
\* 1 2 5 /addi addi
ProgShadow == <<Lit1, Lit2, IntLiteral(5), Binder("addi"), Identifier("addi")>>
\* { x } 1 /x apply 7
ProgUnboundInBody ==
    <<Function(BodyX), Lit1, Binder("x"), Identifier("apply"), IntLiteral(7)>>
\* 1 { 2 /y { addi 8 } apply 9 } apply 7
ProgFailNested ==
    <<Lit1,
      Function(<<Lit2, Binder("y"),
                 Function(<<Identifier("addi"), IntLiteral(8)>>),
                 Identifier("apply"), IntLiteral(9)>>),
      Identifier("apply"), IntLiteral(7)>>
\* { } { /c c apply } /f f f apply
ProgSelfApply ==
    <<Function(<<>>),
      Function(<<Binder("c"), Identifier("c"), Identifier("apply")>>),
      Binder("f"), Identifier("f"), Identifier("f"), Identifier("apply")>>
\* 0 /c { c 1 addi /c c } /f f apply f apply
ProgCounter ==
    <<IntLiteral(0), Binder("c"),
      Function(<<Identifier("c"), Lit1, Identifier("addi"), Binder("c"), Identifier("c")>>),
      Binder("f"), Identifier("f"), Identifier("apply"),
      Identifier("f"), Identifier("apply")>>
\* { /c c c apply } /f f f apply
ProgDiverge ==
    <<Function(<<Binder("c"), Identifier("c"), Identifier("c"), Identifier("apply")>>),
      Binder("f"), Identifier("f"), Identifier("f"), Identifier("apply")>>
\* { } sphere /s  s 1.0 0.0 3.0 translate  s 2.0 1.0 3.0 translate  union
ProgUnion ==
    <<Function(<<>>), Identifier("sphere"), Binder("s"),
      Identifier("s"), FloatLiteral(1), FloatLiteral(0), FloatLiteral(3), Identifier("translate"),
      Identifier("s"), FloatLiteral(2), FloatLiteral(1), FloatLiteral(3), Identifier("translate"),
      Identifier("union")>>
\* { } sphere { } sphere union { } sphere union
ProgUnionNested ==
    <<Function(<<>>), Identifier("sphere"),
      Function(<<Lit1>>), Identifier("sphere"), Identifier("union"),
      Function(<<Lit2>>), Identifier("sphere"), Identifier("union")>>
\* the head of a render program: scene, light and ambient colour
SceneHead(lights) ==
    <<Function(<<>>), Identifier("sphere"), Binder("scene"),
      FloatLiteral(1), FloatLiteral(2), FloatLiteral(3), Identifier("point"),
      FloatLiteral(1), FloatLiteral(1), FloatLiteral(1), Identifier("point"),
      Identifier("pointlight"), Binder("l"),
      FloatLiteral(5), FloatLiteral(6), FloatLiteral(7), Identifier("point"),
      Array(lights), Identifier("scene")>>
RenderTail ==
    <<IntLiteral(4), FloatLiteral(90), IntLiteral(3), IntLiteral(2),
      StringLiteral("sphere.ppm"), Identifier("render"), BoolLiteral(TRUE)>>
\* ... 0.5 0.5 0.5 point [ l ] scene 4 90.0 3 2 "sphere.ppm" render true
ProgRender == SceneHead(<<Identifier("l")>>) \o RenderTail
\* the same with the lights array [ l 1 ]
ProgRenderBadLights == SceneHead(<<Identifier("l"), Lit1>>) \o RenderTail
\* 1 cube 2
ProgCube == <<Lit1, Identifier("cube"), Lit2>>

\* { } sphere 1.0 0.0 3.0 translate /t  t 1.0 1.0 1.0 translate
\* t { 1 } sphere union /u  u 1.0 2.0 3.0 translate  u
ProgTranslate ==
    <<Function(<<>>), Identifier("sphere"),
      FloatLiteral(1), FloatLiteral(0), FloatLiteral(3), Identifier("translate"),
      Binder("t"),
      Identifier("t"), FloatLiteral(1), FloatLiteral(1), FloatLiteral(1), Identifier("translate"),
      Identifier("t"), Function(<<Lit1>>), Identifier("sphere"), Identifier("union"),
      Binder("u"),
      Identifier("u"), FloatLiteral(1), FloatLiteral(2), FloatLiteral(3), Identifier("translate"),
      Identifier("u")>>
\* 1 1.0 2.0 3.0 translate: three reals, then an operand that is no scene object
ProgTranslateMismatch ==
    <<Lit1, FloatLiteral(1), FloatLiteral(2), FloatLiteral(3), Identifier("translate")>>
\* 1 2.0 3.0 point: the third coordinate popped is an integer
ProgPointMismatch == <<Lit1, FloatLiteral(2), FloatLiteral(3), Identifier("point")>>
\* the render program without its ambient colour: seven operands only
ProgRenderShort ==
    <<Function(<<>>), Identifier("sphere"), Binder("scene"),
      Array(<<>>), Identifier("scene")>> \o RenderTail
\* the render program with the integer 1 in place of the ambient colour
ProgRenderBadAmbient ==
    <<Function(<<>>), Identifier("sphere"), Binder("scene"), Lit1,
      Array(<<>>), Identifier("scene")>> \o RenderTail

NamedPrograms ==
    { ProgApply, ProgRebind, ProgArray, ProgArrayPop, ProgArrayNestedFail,
      ProgShadow, ProgUnboundInBody, ProgFailNested, ProgSelfApply,
      ProgCounter, ProgDiverge, ProgUnion, ProgUnionNested, ProgRender,
      ProgRenderBadLights, ProgCube, ProgTranslate, ProgTranslateMismatch,
      ProgPointMismatch, ProgRenderShort, ProgRenderBadAmbient,
      ProgArrayBindFail }

\* every registered name applied to at most MaxOperands operands drawn from
\* an integer, a real and a closure
OperandTokens == {Lit1, FloatLiteral(1), Function(<<>>)}
BuiltinPrograms ==
    { ops \o <<Identifier(name)>> :
        ops \in UNION {[1..n -> OperandTokens] : n \in 0..MaxOperands},
        name \in BuiltinNames }

Programs == GeneratedPrograms \cup NamedPrograms \cup BuiltinPrograms

\* ------------------------------------------------------------------- state
VARIABLES
    program,     \* the TokenList handed to Eval
    renderSet,   \* whether EvalState.Render is non-nil
    Stack,       \* EvalState.Stack
    Env,         \* EvalState.Env: the index in `maps` of the current map
    maps,        \* the heap of environment maps
    CurrToken,   \* EvalState.CurrToken
    frames,      \* the live Eval activations, outermost first
    err,         \* the error being returned, or "none"
    rendered     \* the RenderArgs delivered to the render sink, in order

vars == <<program, renderSet, Stack, Env, maps, CurrToken, frames, err, rendered>>

\* the renderer (package raytracer): one call of Render on one Scene
VARIABLES
    given,           \* the Scene as its caller built it, before Render ran
    scene,           \* the Scene object Render and traceRay work on
    renderPc,        \* where Render is: "idle", "loop" or "done"
    recursionLimit,  \* Render's local of that name
    pixelX,          \* Render's loop variable x
    pixelY,          \* Render's loop variable y
    sampleNo,        \* the samples of the current pixel traced so far
    totalColor,      \* Render's accumulator for the current pixel
    img,             \* for every pixel, the colours img.Set has written to it
    calls,           \* the live traceRay activations, outermost first
    result           \* the *Vec3 most recently returned by traceRay

rvars == <<given, scene, renderPc, recursionLimit, pixelX, pixelY, sampleNo,
           totalColor, img, calls, result>>

\* no Render call is in progress
RenderIdle ==
    /\ given = <<>>
    /\ scene = <<>>
    /\ renderPc = "idle"
    /\ recursionLimit = 0
    /\ pixelX = 0
    /\ pixelY = 0
    /\ sampleNo = 0
    /\ totalColor = <<>>
    /\ img = <<>>
    /\ calls = <<>>
    /\ result = <<>>

\* the lexer and the parser (package gml): one Lexer over one input, driven
\* either by Parse or by a loop that reads every token
VARIABLES
    input,      \* Lexer.input, a sequence of bytes
    lexPos,     \* Lexer.pos
    readPos,    \* Lexer.readPos
    ch,         \* Lexer.ch
    lexPc,      \* where the lexer is: "idle", "switch", "ident", "comment", "string"
    from,       \* Lexer.pos when NextToken reached its switch
    sb,         \* readString's strings.Builder
    strErr,     \* readString's local err is non-nil
    lexed,      \* every LexerToken NextToken has returned, in order
    driver,     \* who calls NextToken: "Parse", "readAllTokens", "NextTokenAgain" or "none"
    curr,       \* Parser.curr
    open,       \* the live parseTokenList activations, outermost first
    parsed      \* what Parse returned, or <<>> while it has not

lvars == <<input, lexPos, readPos, ch, lexPc, from, sb, strErr, lexed, driver,
           curr, open, parsed>>

\* LexerToken{Type, Literal}
LexerToken(type, literal) == [Type |-> type, Literal |-> literal]

\* the zero LexerToken
ZeroToken == LexerToken("Unknown", <<>>)

\* no lexer exists
LexIdle ==
    /\ input = <<>>
    /\ lexPos = 0
    /\ readPos = 0
    /\ ch = ""
    /\ lexPc = "idle"
    /\ from = 0
    /\ sb = <<>>
    /\ strErr = FALSE
    /\ lexed = <<>>
    /\ driver = "none"
    /\ curr = ZeroToken
    /\ open = <<>>
    /\ parsed = <<>>

\* computeSphereSurface called by workers: the EvalStates they call it on,
\* the environments those EvalStates and the closures point to, and each
\* worker's activation
VARIABLES
    evalStates,  \* for every *EvalState its Stack, Env and CurrToken
    arrays,      \* for every worker the backing arrays its appends allocated
    envMaps,     \* the heap of map[string]Value, by address
    workers      \* for every worker its activation of computeSphereSurface

svars == <<evalStates, arrays, envMaps, workers>>

\* no worker exists
ShaderIdle ==
    /\ evalStates = <<>>
    /\ arrays = <<>>
    /\ envMaps = <<>>
    /\ workers = <<>>

\* ParseAndRenderGML and convertGMLSceneObjects
VARIABLES
    gmlPc,        \* where ParseAndRenderGML is: "idle", "Parse", "Eval",
                  \* "Render" (inside a call of state.Render), "done"
    gmlResult,    \* what ParseAndRenderGML returned, or <<>>
    renderedImage, \* its local of that name: what Render returned last
    sceneObjects, \* the argument of convertGMLSceneObjects
    toVisit,      \* its local toVisit
    converted,    \* its local result
    convPc,       \* where it is: "idle", "loop", "done"
    convErr       \* the error it returned, or "none"

gvars == <<gmlPc, gmlResult, renderedImage, sceneObjects, toVisit, converted,
           convPc, convErr>>

\* a nil image.Image
NilImage == [call |-> 0]

\* neither function has been called
GmlIdle ==
    /\ gmlPc = "idle"
    /\ gmlResult = <<>>
    /\ renderedImage = NilImage
    /\ sceneObjects = <<>>
    /\ toVisit = <<>>
    /\ converted = <<>>
    /\ convPc = "idle"
    /\ convErr = "none"

\* SSIM (part_004) and its goroutines
VARIABLES
    bounds,      \* img1.Bounds() and img2.Bounds(), each as <<Dx, Dy>>
    ssimPc,      \* where SSIM is: "idle", "check", "range", "done"
    spawnPc,     \* where the goroutine that starts the others is
    spawnX,      \* its loop variable x
    wg,          \* the counter of the WaitGroup
    chClosed,    \* close(ch) has run
    windows,     \* for every started goroutine its pc, its y and its n
    ssimN,       \* SSIM's local n
    received,    \* the x of the goroutines whose item the range loop took
    ssimResult   \* what SSIM returned, or <<>>

qvars == <<bounds, ssimPc, spawnPc, spawnX, wg, chClosed, windows, ssimN,
           received, ssimResult>>

\* SSIM has not been called
SsimIdle ==
    /\ bounds = <<>>
    /\ ssimPc = "idle"
    /\ spawnPc = "idle"
    /\ spawnX = 0
    /\ wg = 0
    /\ chClosed = FALSE
    /\ windows = <<>>
    /\ ssimN = 0
    /\ received = {}
    /\ ssimResult = <<>>

\* what an activation of Eval finds when it is called: e.Stack, e.Env and
\* the maps the environments refer to
Config(stack, env, heap) == [Stack |-> stack, Env |-> env, maps |-> heap]

\* an activation of Eval, what its caller restores when it returns, and what
\* the activation began with
Frame(caller, code, oldEnv, oldStack, began) ==
    [caller |-> caller, code |-> code, i |-> 1, oldEnv |-> oldEnv, oldStack |-> oldStack,
     began |-> began]

\* NewEvalState() followed by the call Eval(program)
Init ==
    /\ program \in Programs
    /\ renderSet \in BOOLEAN
    /\ Stack = <<>>
    /\ Env = 1
    /\ maps = <<EmptyEnv>>
    /\ CurrToken = NoToken
    /\ frames = <<Frame("top", program, 0, <<>>, Config(<<>>, 1, <<EmptyEnv>>))>>
    /\ err = "none"
    /\ rendered = <<>>
    /\ RenderIdle
    /\ LexIdle
    /\ ShaderIdle
    /\ GmlIdle
    /\ SsimIdle

top == frames[Len(frames)]
token == top.code[top.i]

\* a loop that drops the error of a step and goes on
ContinuesPastError(e, fr) == fr.i <= Len(fr.code)

\* the loop of Eval goes on: no error was returned and a token is left
Continues(e, fr) == e = "none" /\ fr.i <= Len(fr.code)

\* an activation of Eval is running, and is not waiting for the call of
\* e.Render it made to return
Evaluating ==
    /\ frames # <<>>
    /\ gmlPc # "Render"

\* Eval is about to call evalOneStep on `token`
AtToken(kind) ==
    /\ Evaluating
    /\ Continues(err, top)
    /\ token.k = kind

\* the range loop has taken its token
Advance == [frames EXCEPT ![Len(frames)].i = @ + 1]

\* a capture that keeps a reference to the current map instead of a copy
CloneShares(heap, env) == [heap |-> heap, ref |-> env]

\* maps.Clone(e.Env): a new map with the bindings of the current one
Clone(heap, env) == [heap |-> Append(heap, heap[env]), ref |-> Len(heap) + 1]

\* the effect of a step that does not call Eval: new stack and error
Finish(stack, e) ==
    /\ Stack' = stack
    /\ err' = e
    /\ CurrToken' = token
    /\ frames' = Advance
    /\ UNCHANGED <<rvars, lvars, svars, gvars, qvars, program, renderSet, Env>>

EvalLiteral ==
    /\ Evaluating
    /\ Continues(err, top)
    /\ token.k \in {"IntLiteral", "FloatLiteral", "BoolLiteral", "StringLiteral"}
    /\ Finish(push(Stack, CASE token.k = "IntLiteral" -> VInt(token.n)
                            [] token.k = "FloatLiteral" -> VReal(token.n)
                            [] token.k = "BoolLiteral" -> VBool(token.b)
                            [] token.k = "StringLiteral" -> VString(token.s)),
              "none")
    /\ UNCHANGED <<maps, rendered>>

EvalFunction ==
    /\ AtToken("Function")
    /\ LET c == Clone(maps, Env) IN
         /\ maps' = c.heap
         /\ Finish(push(Stack, VClosure(token.Body, c.ref)), "none")
    /\ UNCHANGED rendered

EvalBinder ==
    /\ AtToken("Binder")
    /\ LET r == pop(Stack) IN
         IF r.err # "none"
         THEN Finish(r.stack, r.err) /\ UNCHANGED maps
         ELSE /\ maps' = [maps EXCEPT ![Env] = SetBinding(@, token.Name, r.val)]
              /\ Finish(r.stack, "none")
    /\ UNCHANGED rendered

\* a lookup that ignores the builtin table when the environment binds the name
IsBuiltinUnlessBound(name) ==
    name \in DOMAIN builtins /\ name \notin DOMAIN maps[Env]

\* the test of `if b := builtins[token.Name]; b != nil`
IsBuiltin(name) == name \in DOMAIN builtins

\* a lookup in the outermost environment whatever the current one is
EvalVariableGlobal ==
    /\ AtToken("Identifier")
    /\ ~IsBuiltin(token.Name)
    /\ IF token.Name \in DOMAIN maps[1]
       THEN Finish(push(Stack, maps[1][token.Name]), "none")
       ELSE Finish(Stack, "UnboundIdentifier")
    /\ UNCHANGED <<maps, rendered>>

\* an Identifier that is not in the builtin table
EvalVariable ==
    /\ AtToken("Identifier")
    /\ ~IsBuiltin(token.Name)
    /\ IF token.Name \in DOMAIN maps[Env]
       THEN Finish(push(Stack, maps[Env][token.Name]), "none")
       ELSE Finish(Stack, "UnboundIdentifier")
    /\ UNCHANGED <<maps, rendered>>

\* an Identifier in the builtin table whose Func is `impl`
AtBuiltin(impl) ==
    /\ AtToken("Identifier")
    /\ IsBuiltin(token.Name)
    /\ builtins[token.Name] = impl

\* a nil Func that is skipped without an error
NotImplementedNoOp ==
    /\ AtBuiltin("nil")
    /\ Finish(Stack, "none")
    /\ UNCHANGED <<maps, rendered>>

\* Builtin.Run with a nil Func
NotImplemented ==
    /\ AtBuiltin("nil")
    /\ Finish(Stack, "NotImplemented")
    /\ UNCHANGED <<maps, rendered>>

addi ==
    /\ AtBuiltin("addi")
    /\ LET a == popValue(Stack, "VInt")
           b == popValue(a.stack, "VInt")
       IN  IF a.err # "none" THEN Finish(a.stack, a.err)
           ELSE IF b.err # "none" THEN Finish(b.stack, b.err)
           ELSE Finish(push(b.stack, VInt(a.val.n + b.val.n)), "none")
    /\ UNCHANGED <<maps, rendered>>

\* apply up to its call of Eval(closure.Code)
apply ==
    /\ AtBuiltin("apply")
    /\ LET closure == popValue(Stack, "VClosure") IN
         IF closure.err # "none"
         THEN Finish(closure.stack, closure.err)
         ELSE /\ Len(frames) < MaxDepth
              /\ Stack' = closure.stack
              /\ Env' = closure.val.Env
              /\ frames' = Append(Advance, Frame("apply", closure.val.Code, Env, <<>>,
                                              Config(closure.stack, closure.val.Env, maps)))
              /\ CurrToken' = token
              /\ UNCHANGED <<rvars, lvars, svars, gvars, qvars, program, renderSet, err>>
    /\ UNCHANGED <<maps, rendered>>

\* an activation of Eval returns: its loop is over or a step failed
Returns(caller) ==
    /\ Evaluating
    /\ ~Continues(err, top)
    /\ top.caller = caller

PopFrame == SubSeq(frames, 1, Len(frames) - 1)

\* a return that also puts back a saved stack, as the Array case does
applyReturnRestoresStack ==
    /\ Returns("apply")
    /\ Env' = top.oldEnv
    /\ Stack' = top.oldStack
    /\ frames' = PopFrame
    /\ UNCHANGED <<rvars, lvars, svars, gvars, qvars, program, renderSet, maps, CurrToken, err, rendered>>

\* Eval(closure.Code) returned to apply: the deferred e.Env = oldEnv runs
applyReturn ==
    /\ Returns("apply")
    /\ Env' = top.oldEnv
    /\ frames' = PopFrame
    /\ UNCHANGED <<rvars, lvars, svars, gvars, qvars, program, renderSet, Stack, maps, CurrToken, err, rendered>>

\* an Array case that leaves the outer stack in place for the elements
EvalArrayKeepsStack ==
    /\ AtToken("Array")
    /\ Len(frames) < MaxDepth
    /\ Stack' = Stack
    /\ frames' = Append(Advance, Frame("array", token.Elements, 0, Stack,
                                       Config(Stack, Env, maps)))
    /\ CurrToken' = token
    /\ UNCHANGED <<rvars, lvars, svars, gvars, qvars, program, renderSet, Env, maps, err, rendered>>

\* the Array case up to its call of Eval(token.Elements)
EvalArray ==
    /\ AtToken("Array")
    /\ Len(frames) < MaxDepth
    /\ Stack' = <<>>
    /\ frames' = Append(Advance, Frame("array", token.Elements, 0, Stack,
                                       Config(<<>>, Env, maps)))
    /\ CurrToken' = token
    /\ UNCHANGED <<rvars, lvars, svars, gvars, qvars, program, renderSet, Env, maps, err, rendered>>

\* an Array case without the deferred e.Stack = oldStack: after a failure
\* the stack is what the elements left
ArrayReturnKeepsElements ==
    /\ Returns("array")
    /\ Stack' = IF err # "none" THEN Stack
                ELSE Append(top.oldStack, VArray(Stack))
    /\ frames' = PopFrame
    /\ UNCHANGED <<rvars, lvars, svars, gvars, qvars, program, renderSet, Env, maps, CurrToken, err, rendered>>

\* Eval(token.Elements) returned to the Array case: on success oldStack gets
\* the VArray; the deferred e.Stack = oldStack runs in both cases
ArrayReturn ==
    /\ Returns("array")
    /\ Stack' = IF err # "none" THEN top.oldStack
                ELSE Append(top.oldStack, VArray(Stack))
    /\ frames' = PopFrame
    /\ UNCHANGED <<rvars, lvars, svars, gvars, qvars, program, renderSet, Env, maps, CurrToken, err, rendered>>

\* the outermost Eval returns to its caller with err
EvalReturn ==
    /\ Returns("top")
    /\ frames' = PopFrame
    /\ UNCHANGED <<rvars, lvars, svars, gvars, qvars, program, renderSet, Stack, Env, maps, CurrToken, err, rendered>>

\* a point built from the coordinates in the order they are popped
pointReversed ==
    /\ AtBuiltin("point")
    /\ LET r == pop3(Stack, "VReal") IN
         IF r.err # "none" THEN Finish(r.stack, r.err)
         ELSE Finish(push(r.stack, Point(r.z.n, r.y.n, r.x.n)), "none")
    /\ UNCHANGED <<maps, rendered>>

point ==
    /\ AtBuiltin("point")
    /\ LET r == pop3(Stack, "VReal") IN
         IF r.err # "none" THEN Finish(r.stack, r.err)
         ELSE Finish(push(r.stack, Point(r.x.n, r.y.n, r.z.n)), "none")
    /\ UNCHANGED <<maps, rendered>>

pointlight ==
    /\ AtBuiltin("pointlight")
    /\ LET color == popValue(Stack, "Point")
           pos == popValue(color.stack, "Point")
       IN  IF color.err # "none" THEN Finish(color.stack, color.err)
           ELSE IF pos.err # "none" THEN Finish(pos.stack, pos.err)
           ELSE Finish(push(pos.stack, PointLight(pos.val, color.val)), "none")
    /\ UNCHANGED <<maps, rendered>>

sphere ==
    /\ AtBuiltin("sphere")
    /\ LET surfaceFn == popValue(Stack, "VClosure") IN
         IF surfaceFn.err # "none" THEN Finish(surfaceFn.stack, surfaceFn.err)
         ELSE Finish(push(surfaceFn.stack, Sphere(Point(0, 0, 0), 1, surfaceFn.val)), "none")
    /\ UNCHANGED <<maps, rendered>>

translate ==
    /\ AtBuiltin("translate")
    /\ LET r == pop3(Stack, "VReal")
           s == popValue(r.stack, "SceneObject")
       IN  IF r.err # "none" THEN Finish(r.stack, r.err)
           ELSE IF s.err # "none" THEN Finish(s.stack, s.err)
           ELSE Finish(push(s.stack, Translate(s.val, r.x, r.y, r.z)), "none")
    /\ UNCHANGED <<maps, rendered>>

\* the children in the other order
MakeUnionSwapped(a, b) == Union(<<b, a>>)

\* &Union{Objects: []SceneObject{a, b}}
MakeUnion(a, b) == Union(<<a, b>>)

union ==
    /\ AtBuiltin("union")
    /\ LET a == popValue(Stack, "SceneObject")
           b == popValue(a.stack, "SceneObject")
       IN  IF a.err # "none" THEN Finish(a.stack, a.err)
           ELSE IF b.err # "none" THEN Finish(b.stack, b.err)
           ELSE Finish(push(b.stack, MakeUnion(a.val, b.val)), "none")
    /\ UNCHANGED <<maps, rendered>>

\* the eight popValue calls of render, stopping at the first failure
RECURSIVE PopArgs(_, _)
PopArgs(stack, types) ==
    IF types = <<>> THEN [err |-> "none", vals |-> <<>>, stack |-> stack]
    ELSE LET r == popValue(stack, Head(types)) IN
         IF r.err # "none" THEN [err |-> r.err, vals |-> <<>>, stack |-> r.stack]
         ELSE LET rest == PopArgs(r.stack, Tail(types)) IN
              [err |-> rest.err, vals |-> <<r.val>> \o rest.vals, stack |-> rest.stack]

RenderOperands ==
    <<"VString", "VInt", "VInt", "VReal", "VInt", "SceneObject", "VArray", "Point">>

\* a lights loop that accepts every element
AllPointLightsUnchecked(lights) == TRUE

\* the loop over lights.Elements: every element is a *PointLight
AllPointLights(lights) ==
    \A i \in DOMAIN lights.Elements : lights.Elements[i].t = "PointLight"

\* a request with the two image sizes exchanged
MakeRenderArgsSwapped(file, height, width, fov, depth, obj, lights, amb) ==
    RenderArgs(amb, lights.Elements, obj, depth.n, fov.n, height.n, width.n, file.s)

\* the &RenderArgs{...} literal handed to e.Render
MakeRenderArgs(file, height, width, fov, depth, obj, lights, amb) ==
    RenderArgs(amb, lights.Elements, obj, depth.n, fov.n, width.n, height.n, file.s)

\* the call e.Render(args).  The function ParseAndRenderGML has set begins
\* with its call of convertGMLSceneObjects([]gml.SceneObject{args.Scene},
\* state) and goes on below; any other function that was set has returned
CallRender(args) ==
    IF gmlPc = "Eval"
    THEN /\ gmlPc' = "Render"
         /\ sceneObjects' = <<args.Scene>>
         /\ toVisit' = <<args.Scene>>
         /\ converted' = <<>>
         /\ convPc' = "loop"
         /\ convErr' = "none"
         /\ UNCHANGED <<gmlResult, renderedImage>>
    ELSE UNCHANGED gvars

render ==
    /\ AtBuiltin("render")
    /\ LET r == PopArgs(Stack, RenderOperands)
           file == r.vals[1]
           height == r.vals[2]
           width == r.vals[3]
           fov == r.vals[4]
           depth == r.vals[5]
           obj == r.vals[6]
           lights == r.vals[7]
           amb == r.vals[8]
       IN  IF r.err # "none"
           THEN Finish(r.stack, r.err) /\ UNCHANGED rendered
           ELSE IF ~AllPointLights(lights)
           THEN Finish(r.stack, "BadLights") /\ UNCHANGED rendered
           ELSE IF ~renderSet
           THEN Finish(r.stack, "RenderNotSet") /\ UNCHANGED rendered
           ELSE \E args \in {MakeRenderArgs(file, height, width, fov, depth, obj,
                                             lights, amb)} :
                  /\ rendered' = Append(rendered, args)
                  /\ CallRender(args)
                  /\ Stack' = r.stack
                  /\ err' = "none"
                  /\ CurrToken' = token
                  /\ frames' = Advance
                  /\ UNCHANGED <<rvars, lvars, svars, qvars, program, renderSet, Env>>
    /\ UNCHANGED maps

Next ==
    \/ EvalLiteral
    \/ EvalFunction
    \/ EvalBinder
    \/ EvalVariable
    \/ NotImplemented
    \/ addi
    \/ apply
    \/ applyReturn
    \/ EvalArray
    \/ ArrayReturn
    \/ EvalReturn
    \/ point
    \/ pointlight
    \/ sphere
    \/ translate
    \/ union
    \/ render

Spec == Init /\ [][Next]_<<vars, rvars, lvars, svars, gvars, qvars>>

\* Eval(program) has returned
Returned == frames = <<>>

\* ------------------------------------------------------------------ claims
StackTop == Stack[Len(Stack)]
StackRest == SubSeq(Stack, 1, Len(Stack) - 1)

\* C1: a closure literal captures a copy of the current environment.  The
\* step that evaluates a Function pushes a closure whose map is a new one,
\* distinct from every existing map (so also from the defining one), holding
\* the bindings current at that moment; a Binder step writes the popped
\* value into the current map only, where later lookups see it, and leaves
\* every other map (so every closure captured from it) as it was.  Hence
\* `1 /x { x } /f 2 /x f apply x addi` returns with VInt(3) on top.
C1_CaptureIsCopy ==
    /\ [][ /\ AtToken("Function") =>
                /\ Len(Stack') = Len(Stack) + 1
                /\ Stack'[Len(Stack')].t = "VClosure"
                /\ Stack'[Len(Stack')].Env \notin DOMAIN maps
                /\ Stack'[Len(Stack')].Env \in DOMAIN maps'
                /\ maps'[Stack'[Len(Stack')].Env] = maps[Env]
                /\ \A m \in DOMAIN maps : maps'[m] = maps[m]
           /\ AtToken("Binder") =>
                /\ \A m \in DOMAIN maps : m # Env => maps'[m] = maps[m]
                /\ Stack # <<>> => maps'[Env][token.Name] = StackTop
         ]_vars
    /\ [](Returned /\ program = ProgRebind =>
              err = "none" /\ Stack # <<>> /\ StackTop = VInt(3))

\* the closure f still holds x = 1 after x was rebound to 2 where f was defined
C1_Witness ==
    /\ program = ProgRebind
    /\ Returned
    /\ Stack = <<VInt(3)>>
    /\ maps[1]["x"] = VInt(2)
    /\ maps[maps[1]["f"].Env]["x"] = VInt(1)

\* C2: after apply returns, with or without an error, the active environment
\* is the one that was active before the apply and its bindings are the ones
\* it had then: the return puts the saved map back, and no step taken while
\* the apply is running changes the bindings of the saved map.
C2_ApplyRestoresEnv ==
    [][ /\ Returns("apply") => Env' = top.oldEnv
        /\ \A d \in DOMAIN frames :
              frames[d].caller = "apply" =>
                  maps'[frames[d].oldEnv] = maps[frames[d].oldEnv]
      ]_vars

\* C3: Eval evaluates token groups left to right and returns the first error.
\* In every activation the index moves on by one token at a time and the step
\* taken is the one of the token at the index; once a step has failed no
\* further token is evaluated anywhere: every later step is the return of
\* the innermost activation, the error stays the same, no map and no render
\* request changes, and the stack and environment only take saved values.
C3_FirstErrorStops ==
    [][ /\ \A d \in DOMAIN frames :
              d \in DOMAIN frames' =>
                  /\ frames'[d].code = frames[d].code
                  /\ frames'[d].i \in {frames[d].i, frames[d].i + 1}
        /\ (frames # <<>> /\ Continues(err, top)) =>
              /\ CurrToken' = token
              /\ frames'[Len(frames)].i = top.i + 1
        /\ err # "none" =>
              /\ err' = err
              /\ CurrToken' = CurrToken
              /\ maps' = maps
              /\ rendered' = rendered
              /\ frames' = PopFrame
              /\ Stack' \in {Stack, top.oldStack}
              /\ Env' \in {Env, top.oldEnv}
      ]_vars

\* the inner body `addi 8` failed two applies deep; 8, 9 and 7 were never run
C3_Witness ==
    /\ program = ProgFailNested
    /\ Returned
    /\ err = "EmptyStack"
    /\ CurrToken = Identifier("addi")
    /\ Stack = <<>>

\* C4: an array literal runs its elements on a fresh empty stack.  Entering
\* the literal empties the stack and saves the outer one; the saved stack of
\* a running literal never changes; a Binder on the empty inner stack fails
\* with EmptyStack whatever the outer stack holds; a successful return leaves
\* the saved stack followed by one Array of the inner stack.  `1 [2 3] 4`
\* returns [1, Array[2,3], 4] and `1 [ /x ] 4` fails with EmptyStack.
C4_ArrayFreshStack ==
    /\ [][ /\ AtToken("Array") =>
                /\ Stack' = <<>>
                /\ Len(frames') = Len(frames) + 1
                /\ frames'[Len(frames')].oldStack = Stack
                /\ frames'[Len(frames')].code = token.Elements
           /\ \A d \in DOMAIN frames :
                 d \in DOMAIN frames' => frames'[d].oldStack = frames[d].oldStack
           /\ (AtToken("Binder") /\ top.caller = "array" /\ Stack = <<>>) =>
                 err' = "EmptyStack"
           /\ (Returns("array") /\ err = "none") =>
                 Stack' = Append(top.oldStack, VArray(Stack))
         ]_vars
    /\ [](Returned /\ program = ProgArray =>
              /\ err = "none"
              /\ Stack = <<VInt(1), VArray(<<VInt(2), VInt(3)>>), VInt(4)>>)
    /\ [](Returned /\ program = ProgArrayPop => err = "EmptyStack")

C4_Witness ==
    /\ program = ProgArray
    /\ Returned
    /\ Stack = <<VInt(1), VArray(<<VInt(2), VInt(3)>>), VInt(4)>>

\* C5: closure values are immutable.  No step changes the bindings of a map
\* captured by a closure (every map but the outermost one), and two applies
\* of the same closure on equal stacks leave equal results: in
\* `0 /c { c 1 addi /c c } /f f apply f apply` both applies push the same.
C5_ClosuresImmutable ==
    /\ [][ \A m \in DOMAIN maps : m # 1 => maps'[m] = maps[m] ]_vars
    /\ [](Returned /\ program = ProgCounter =>
              Len(Stack) = 2 /\ Stack[1] = Stack[2])

\* C6: an identifier that names a registered builtin runs the builtin even
\* when the current environment binds the name: such a step never pushes the
\* bound value, and `1 2 5 /addi addi` returns with the stack [3].
C6_BuiltinsWin ==
    /\ [][ (AtToken("Identifier") /\ token.Name \in BuiltinNames
              /\ token.Name \in DOMAIN maps[Env]) =>
                 /\ Stack' # push(Stack, maps[Env][token.Name])
                 /\ (token.Name = "addi" /\ Len(Stack) >= 2
                       /\ StackTop.t = "VInt" /\ Stack[Len(Stack) - 1].t = "VInt") =>
                        Stack' = push(SubSeq(Stack, 1, Len(Stack) - 2),
                                      VInt(StackTop.n + Stack[Len(Stack) - 1].n))
         ]_vars
    /\ [](Returned /\ program = ProgShadow => err = "none" /\ Stack = <<VInt(3)>>)

C6_Witness ==
    /\ program = ProgShadow
    /\ Returned
    /\ maps[1]["addi"] = VInt(5)
    /\ CurrToken = Identifier("addi")
    /\ Stack = <<VInt(3)>>

\* C7: a Binder on a non-empty stack pops one value and binds the name to it
\* in the current environment, replacing an earlier binding and leaving the
\* other bindings as they were; on an empty stack it fails with EmptyStack
\* and changes no environment.  No step removes a binding from any map.
C7_Binder ==
    [][ /\ AtToken("Binder") =>
             IF Stack = <<>>
             THEN err' = "EmptyStack" /\ maps' = maps /\ Stack' = Stack /\ Env' = Env
             ELSE /\ err' = "none"
                  /\ Stack' = StackRest
                  /\ Env' = Env
                  /\ DOMAIN maps'[Env] = (DOMAIN maps[Env]) \cup {token.Name}
                  /\ maps'[Env][token.Name] = StackTop
                  /\ \A n \in DOMAIN maps[Env] :
                        n # token.Name => maps'[Env][n] = maps[Env][n]
        /\ \A m \in DOMAIN maps :
              m \in DOMAIN maps' /\ (DOMAIN maps[m]) \subseteq (DOMAIN maps'[m])
      ]_vars

\* x was rebound from 1 to 2 while f stayed bound
C7_Witness ==
    /\ program = ProgRebind
    /\ CurrToken = Binder("x")
    /\ DOMAIN maps[1] = {"x", "f"}
    /\ maps[1]["x"] = VInt(2)
    /\ Stack = <<>>

\* C8: an identifier that is not a builtin pushes the value bound to it in
\* the current environment and changes no environment; when the name is not
\* bound there the step fails with UnboundIdentifier and stack and
\* environments stay as they were.  Inside an apply the current environment
\* is the one the closure captured: `{ x } 1 /x apply 7` fails with
\* UnboundIdentifier although x is bound where apply was called.
C8_VariableLookup ==
    /\ [][ /\ (AtToken("Identifier") /\ ~IsBuiltin(token.Name)) =>
                /\ maps' = maps
                /\ Env' = Env
                /\ IF token.Name \in DOMAIN maps[Env]
                   THEN err' = "none" /\ Stack' = Append(Stack, maps[Env][token.Name])
                   ELSE err' = "UnboundIdentifier" /\ Stack' = Stack
           /\ (AtBuiltin("apply") /\ Stack # <<>> /\ StackTop.t = "VClosure") =>
                Env' = StackTop.Env
         ]_vars
    /\ [](Returned /\ program = ProgUnboundInBody => err = "UnboundIdentifier")

C8_Witness ==
    /\ program = ProgUnboundInBody
    /\ Returned
    /\ err = "UnboundIdentifier"
    /\ CurrToken = Identifier("x")
    /\ maps[1]["x"] = VInt(1)

\* C9: apply runs the closure body on the caller's stack.  The call removes
\* only the closure, so the values below it are the operands of the body, and
\* the return leaves the stack as the body left it.
\* `1 { /x x x } apply addi` returns with the stack [2].
C9_ApplySharesStack ==
    /\ [][ /\ (AtBuiltin("apply") /\ Stack # <<>> /\ StackTop.t = "VClosure") =>
                /\ Stack' = StackRest
                /\ frames'[Len(frames')].code = StackTop.Code
           /\ Returns("apply") => Stack' = Stack
         ]_vars
    /\ [](Returned /\ program = ProgApply => err = "none" /\ Stack = <<VInt(2)>>)

C9_Witness ==
    /\ program = ProgApply
    /\ Returned
    /\ err = "none"
    /\ Stack = <<VInt(2)>>

\* union is about to run on two scene objects
UnionOperands ==
    /\ AtBuiltin("union")
    /\ Len(Stack) >= 2
    /\ HasType(Stack[Len(Stack)], "SceneObject")
    /\ HasType(Stack[Len(Stack) - 1], "SceneObject")

\* C10 as stated: union pushes one Union whose first child is the object
\* popped second and whose second child is the object popped first, i.e. the
\* children are in the order in which the program pushed them.
C10_UnionOrderAsPushed ==
    [][ UnionOperands =>
           Stack' = push(SubSeq(Stack, 1, Len(Stack) - 2),
                         Union(<<Stack[Len(Stack) - 1], Stack[Len(Stack)]>>))
      ]_vars

\* C10 amended: union pops two scene objects and pushes one Union whose first
\* child is the object popped first (the one the program pushed last) and
\* whose second child is the object popped second: the children are in the
\* reverse of the order in which the program pushed them.
C10_UnionOrderAsPopped ==
    /\ [][ UnionOperands =>
              Stack' = push(SubSeq(Stack, 1, Len(Stack) - 2),
                            Union(<<Stack[Len(Stack)], Stack[Len(Stack) - 1]>>))
         ]_vars
    /\ [](Returned /\ program = ProgUnion =>
              /\ err = "none"
              /\ Len(Stack) = 1
              /\ Stack[1].Objects[1].Center = Point(2, 1, 3)
              /\ Stack[1].Objects[2].Center = Point(1, 0, 3))

C10_Witness ==
    /\ program = ProgUnion
    /\ Returned
    /\ Len(Stack) = 1
    /\ Stack[1].t = "Union"
    /\ Stack[1].Objects[1].Center = Point(2, 1, 3)
    /\ Stack[1].Objects[2].Center = Point(1, 0, 3)

\* ----------------------------------------------------- builtins, continued
\* the operand popped i-th by the builtin about to run
Operand(i) == Stack[Len(Stack) - i + 1]

\* the stack without its n topmost values
StackBelow(n) == SubSeq(Stack, 1, Len(Stack) - n)

\* render is about to run on eight operands of the expected tags
RenderWellTyped ==
    /\ AtBuiltin("render")
    /\ Len(Stack) >= 8
    /\ Operand(1).t = "VString"
    /\ Operand(2).t = "VInt"
    /\ Operand(3).t = "VInt"
    /\ Operand(4).t = "VReal"
    /\ Operand(5).t = "VInt"
    /\ Operand(6).t \in {"Sphere", "Union"}
    /\ Operand(7).t = "VArray"
    /\ Operand(8).t = "Point"

LightsArePointLights ==
    \A i \in DOMAIN Operand(7).Elements : Operand(7).Elements[i].t = "PointLight"

\* the request that ProgRender describes
ProgRenderRequest ==
    [AmbientLight |-> Point(5, 6, 7),
     Lights |-> <<PointLight(Point(1, 2, 3), Point(1, 1, 1))>>,
     Scene |-> Sphere(Point(0, 0, 0), 1, VClosure(<<>>, 2)),
     Depth |-> 4, Fov |-> 90, Width |-> 3, Height |-> 2, File |-> "sphere.ppm"]

\* C11: a render step on eight well-typed operands (lights all PointLights,
\* sink configured) pops file name, height, width, field of view, recursion
\* depth, scene object, lights array and ambient light in that order, hands
\* the sink exactly one request whose fields are those operands (lights in
\* array order) and pushes nothing; no other step calls the sink, and a
\* program with one render token delivers exactly one request.
C11_RenderDeliversOperands ==
    /\ [][ IF RenderWellTyped /\ LightsArePointLights /\ renderSet
           THEN /\ rendered' = Append(rendered,
                      [AmbientLight |-> Operand(8),
                       Lights |-> Operand(7).Elements,
                       Scene |-> Operand(6),
                       Depth |-> Operand(5).n,
                       Fov |-> Operand(4).n,
                       Width |-> Operand(3).n,
                       Height |-> Operand(2).n,
                       File |-> Operand(1).s])
                /\ Stack' = StackBelow(8)
                /\ err' = "none"
           ELSE rendered' = rendered
         ]_vars
    /\ [](Returned /\ program = ProgRender /\ renderSet =>
              /\ err = "none"
              /\ rendered = <<ProgRenderRequest>>
              /\ Stack = <<VBool(TRUE)>>)

C11_Witness ==
    /\ program = ProgRender
    /\ renderSet
    /\ Returned
    /\ rendered = <<ProgRenderRequest>>
    /\ Stack = <<VBool(TRUE)>>

\* C12: render fails and hands the sink nothing when its lights array holds
\* an element that is not a PointLight or when no sink is configured; the
\* program stops at the render token.
C12_RenderRefuses ==
    /\ [][ RenderWellTyped /\ (~LightsArePointLights \/ ~renderSet) =>
              /\ err' # "none"
              /\ rendered' = rendered
         ]_vars
    /\ [](Returned /\ program = ProgRenderBadLights =>
              /\ err # "none"
              /\ rendered = <<>>
              /\ CurrToken = Identifier("render"))
    /\ [](Returned /\ program = ProgRender /\ ~renderSet =>
              /\ err # "none"
              /\ rendered = <<>>
              /\ CurrToken = Identifier("render"))

C12_Witness ==
    /\ program = ProgRenderBadLights
    /\ renderSet
    /\ Returned
    /\ err = "BadLights"
    /\ rendered = <<>>
    /\ CurrToken = Identifier("render")

\* `b` is the scene object `a` moved by (dx, dy, dz): a sphere with the same
\* radius and surface function, or a union of as many children, each moved
RECURSIVE MovedBy(_, _, _, _, _)
MovedBy(a, b, dx, dy, dz) ==
    IF a.t = "Sphere"
    THEN /\ b.t = "Sphere"
         /\ b.Center = Point(a.Center.X + dx, a.Center.Y + dy, a.Center.Z + dz)
         /\ b.Radius = a.Radius
         /\ b.SurfaceFn = a.SurfaceFn
    ELSE /\ b.t = "Union"
         /\ Len(b.Objects) = Len(a.Objects)
         /\ \A i \in DOMAIN a.Objects :
                MovedBy(a.Objects[i], b.Objects[i], dx, dy, dz)

TranslateOperands ==
    /\ AtBuiltin("translate")
    /\ Len(Stack) >= 4
    /\ \A i \in 1..3 : Operand(i).t = "VReal"
    /\ Operand(4).t \in {"Sphere", "Union"}

\* C13: translate pops z, y, x and a scene object and pushes a new object
\* moved by (x, y, z); no binding changes, so an object bound to a name is
\* moved from its original position each time; a translated union has as
\* many children in the same order, each moved by the same offset.
C13_TranslateIsFresh ==
    /\ [][ TranslateOperands =>
              /\ Len(Stack') = Len(Stack) - 3
              /\ StackBelow(4) = SubSeq(Stack', 1, Len(Stack') - 1)
              /\ MovedBy(Operand(4), Stack'[Len(Stack')],
                         Operand(3).n, Operand(2).n, Operand(1).n)
              /\ maps' = maps
              /\ err' = "none"
         ]_vars
    /\ [](Returned /\ program = ProgUnion =>
              maps[1]["s"].Center = Point(0, 0, 0))
    /\ [](Returned /\ program = ProgTranslate =>
              /\ err = "none"
              /\ Len(Stack) = 3
              /\ maps[1]["t"].Center = Point(1, 0, 3)
              /\ Stack[1].Center = Point(2, 1, 4)
              /\ Len(Stack[2].Objects) = 2
              /\ Stack[2].Objects[1].Center = Point(1, 2, 3)
              /\ Stack[2].Objects[2].Center = Point(2, 2, 6)
              /\ Stack[3] = maps[1]["u"]
              /\ Stack[3].Objects[1].Center = Point(0, 0, 0)
              /\ Stack[3].Objects[2].Center = Point(1, 0, 3))

C13_Witness ==
    /\ program = ProgTranslate
    /\ Returned
    /\ Len(Stack) = 3
    /\ Stack[2].t = "Union"
    /\ Stack[2].Objects[2].Center = Point(2, 2, 6)
    /\ maps[1]["t"].Center = Point(1, 0, 3)

\* C14: point on three reals x, y, z (z on top) replaces them by the one
\* value Point(x, y, z).
C14_PointOrder ==
    /\ [][ /\ AtBuiltin("point")
           /\ Len(Stack) >= 3
           /\ \A i \in 1..3 : Operand(i).t = "VReal"
           => /\ Stack' = push(StackBelow(3),
                               Point(Operand(3).n, Operand(2).n, Operand(1).n))
              /\ err' = "none"
         ]_vars
    /\ [](program = ProgRender /\ CurrToken = Identifier("point")
              /\ Len(frames) = 1 /\ frames[1].i = 8 => Stack = <<Point(1, 2, 3)>>)

C14_Witness ==
    /\ program = ProgRender
    /\ CurrToken = Identifier("point")
    /\ Len(frames) = 1
    /\ frames[1].i = 8
    /\ Stack = <<Point(1, 2, 3)>>

\* the tags a builtin expects, in the order it pops them
OperandTags(name) ==
    CASE name = "addi" -> <<{"VInt"}, {"VInt"}>>
      [] name = "apply" -> <<{"VClosure"}>>
      [] name = "point" -> <<{"VReal"}, {"VReal"}, {"VReal"}>>
      [] name = "pointlight" -> <<{"Point"}, {"Point"}>>
      [] name = "sphere" -> <<{"VClosure"}>>
      [] name = "translate" ->
            <<{"VReal"}, {"VReal"}, {"VReal"}, {"Sphere", "Union"}>>
      [] name = "union" -> <<{"Sphere", "Union"}, {"Sphere", "Union"}>>
      [] name = "render" ->
            <<{"VString"}, {"VInt"}, {"VInt"}, {"VReal"}, {"VInt"},
              {"Sphere", "Union"}, {"VArray"}, {"Point"}>>

ImplementedBuiltins ==
    {"addi", "apply", "point", "pointlight", "sphere", "translate", "union",
     "render"}

\* operand i of the builtin is missing or has a tag outside `tags[i]`
BadOperand(tags, i) ==
    \/ i > Len(Stack)
    \/ Operand(i).t \notin tags[i]

\* C15: a builtin whose i-th operand is the first one missing or wrongly
\* tagged fails, with EmptyStack when the stack ran out and with
\* TypeMismatch when the operand has the wrong tag; what is left of the stack
\* is a prefix of the old one (no result is pushed), and EmptyStack is only
\* ever reported on a stack with nothing left to pop.
C15_OperandErrors ==
    /\ [][ \A name \in ImplementedBuiltins :
           \A i \in DOMAIN OperandTags(name) :
              /\ AtToken("Identifier")
              /\ IsBuiltin(token.Name)
              /\ token.Name = name
              /\ BadOperand(OperandTags(name), i)
              /\ \A j \in 1..(i - 1) : ~BadOperand(OperandTags(name), j)
              => /\ err' = IF i > Len(Stack) THEN "EmptyStack" ELSE "TypeMismatch"
                 /\ Len(Stack') <= Len(Stack)
                 /\ Stack' = SubSeq(Stack, 1, Len(Stack'))
         ]_vars
    /\ [][ err' = "EmptyStack" /\ err = "none" => Stack' = <<>> ]_vars

C15_Witness ==
    /\ program = ProgTranslateMismatch
    /\ Returned
    /\ err = "TypeMismatch"
    /\ CurrToken = Identifier("translate")
    /\ Stack = <<>>

Unimplemented == {"cube", "plane", "uscale", "rotatex", "rotatey", "rotatez"}

\* C16: an identifier naming a recognized builtin without an implementation
\* (cube, plane, uscale, rotatex, rotatey, rotatez) fails with
\* NotImplemented and leaves the stack and the environment as they were; the
\* program stops there.
C16_Unimplemented ==
    /\ [][ /\ AtToken("Identifier")
           /\ IsBuiltin(token.Name)
           /\ token.Name \in Unimplemented
           => /\ err' = "NotImplemented"
              /\ Stack' = Stack
              /\ Env' = Env
              /\ maps' = maps
         ]_vars
    /\ [](Returned /\ program = ProgCube =>
              /\ err = "NotImplemented"
              /\ Stack = <<VInt(1)>>
              /\ CurrToken = Identifier("cube"))

C16_Witness ==
    /\ program = <<Lit1, FloatLiteral(1), Identifier("rotatez")>>
    /\ Returned
    /\ err = "NotImplemented"
    /\ Stack = <<VInt(1), VReal(1)>>

\* =================================================================== renderer
\* Package raytracer.  A float64 is modelled as an exact number: a rational
\* <<n, d>> in lowest terms with d > 0, or a + b * sqrt(s) for rationals a
\* and b # 0 and a whole number s > 1 free of squares, <<an, ad, bn, bd, s>>.
\* Rounding is not modelled.  The scenes are chosen so that every square
\* root taken while they are rendered is that of a rational square; the
\* square root of any other rational has a value too, the sums and products
\* of numbers with one radicand have, and any two numbers are compared.
\* A local of a Go function that is read more than once is a parameter of a
\* helper operator here (the statements after its assignment).

\* ----------------------------------------------------------------- float64
\* F(v), v being evaluated before F is applied to it
With(v, F(_)) == CHOOSE y \in { F(x) : x \in {v} } : TRUE

RECURSIVE GCD(_, _)
GCD(a, b) == IF b = 0 THEN a ELSE GCD(b, a % b)

Abs(n) == IF n < 0 THEN -n ELSE n

\* the float64 n/d, in lowest terms; a whole number needs no reduction
Rat(n, d) ==
    IF d = 1 \/ n = 0 THEN <<n, 1>>
    ELSE LET g == GCD(Abs(n), Abs(d))
             sgn == IF d < 0 THEN -1 ELSE 1
         IN  <<sgn * (n \div g), sgn * (d \div g)>>

Zero == <<0, 1>>
One == <<1, 1>>
FromInt(n) == <<n, 1>>

\* a + b of rationals, over the least common denominator
QAdd(a, b) ==
    IF a[2] = b[2] THEN Rat(a[1] + b[1], a[2])
    ELSE LET g == GCD(a[2], b[2])
             fa == b[2] \div g
             fb == a[2] \div g
         IN  Rat(a[1] * fa + b[1] * fb, a[2] * fa)

QNeg(a) == <<-a[1], a[2]>>
QSub(a, b) == QAdd(a, QNeg(b))

\* a * b of rationals, cancelling across before multiplying
QMul(a, b) ==
    IF a[2] = 1 /\ b[2] = 1 THEN <<a[1] * b[1], 1>>
    ELSE LET g1 == GCD(Abs(a[1]), b[2])
             g2 == GCD(Abs(b[1]), a[2])
         IN  Rat((a[1] \div g1) * (b[1] \div g2), (a[2] \div g2) * (b[2] \div g1))

\* 1 / b of a rational b # 0
QInv(b) == IF b[1] < 0 THEN <<-b[2], -b[1]>> ELSE <<b[2], b[1]>>

\* the rational a, the rational b and the radicand s of a + b * sqrt(s)
RatPart(x) == <<x[1], x[2]>>
RootPart(x) == IF Len(x) = 2 THEN Zero ELSE <<x[3], x[4]>>
Radicand(x) == IF Len(x) = 2 THEN 1 ELSE x[5]

\* a + b * sqrt(s)
Surd(a, b, s) == IF b[1] = 0 THEN a ELSE <<a[1], a[2], b[1], b[2], s>>

\* the radicand of the sum and of the product of a and b, which have none
\* when a and b have different radicands
Radical(a, b) ==
    IF Len(a) = 2 THEN Radicand(b)
    ELSE IF Len(b) = 2 \/ a[5] = b[5] THEN a[5]
    ELSE CHOOSE s \in {} : TRUE

\* -1, 0 or 1 as the whole number n is negative, zero or positive
Sgn(n) == IF n < 0 THEN -1 ELSE IF n = 0 THEN 0 ELSE 1

\* the sign of a + b * sqrt(s) for rationals a and b # 0 and s no square:
\* that of a and b when they agree, and else that of the one whose square is
\* the larger of a^2 and b^2 * s
SurdSign(a, b, s) ==
    IF a[1] >= 0 /\ b[1] > 0 THEN 1
    ELSE IF a[1] <= 0 /\ b[1] < 0 THEN -1
    ELSE Sgn(a[1]) * Sgn(QSub(QMul(a, a), QMul(QMul(b, b), <<s, 1>>))[1])

\* the sign of a float64
Sign(x) == IF Len(x) = 2 THEN Sgn(x[1]) ELSE SurdSign(RatPart(x), RootPart(x), x[5])

\* a + b
RAdd(a, b) ==
    IF Len(a) = 2 /\ Len(b) = 2 THEN QAdd(a, b)
    ELSE Surd(QAdd(RatPart(a), RatPart(b)), QAdd(RootPart(a), RootPart(b)),
              Radical(a, b))

RNeg(a) == IF Len(a) = 2 THEN <<-a[1], a[2]>> ELSE <<-a[1], a[2], -a[3], a[4], a[5]>>
RSub(a, b) == RAdd(a, RNeg(b))

\* a * b
RMul(a, b) ==
    IF Len(a) = 2 /\ Len(b) = 2 THEN QMul(a, b)
    ELSE Surd(QAdd(QMul(RatPart(a), RatPart(b)),
                   QMul(QMul(RootPart(a), RootPart(b)), <<Radical(a, b), 1>>)),
              QAdd(QMul(RatPart(a), RootPart(b)), QMul(RatPart(b), RootPart(a))),
              Radical(a, b))

\* 1 / (a + b * sqrt(s)) = (a - b * sqrt(s)) / (a^2 - b^2 * s)
SurdInv(a, b, s) ==
    With(QInv(QSub(QMul(a, a), QMul(QMul(b, b), <<s, 1>>))),
         LAMBDA norm : Surd(QMul(a, norm), QMul(QNeg(b), norm), s))

\* a / b for b # 0
RDiv(a, b) ==
    RMul(a, IF Len(b) = 2 THEN QInv(b) ELSE SurdInv(RatPart(b), RootPart(b), b[5]))

\* the sign of p + q * sqrt(s) + r * sqrt(t) for rationals p, q # 0 and
\* r # 0 and different s and t free of squares: x is the sign of the two
\* roots together; where p has the other sign, the larger of p^2 and
\* (q * sqrt(s) + r * sqrt(t))^2 = q^2 * s + r^2 * t + 2 * q * r * sqrt(s * t)
\* decides
CrossSignFrom(p, q, r, s, t, x) ==
    IF p[1] = 0 \/ Sgn(p[1]) = x THEN x
    ELSE Sgn(p[1]) * SurdSign(QSub(QMul(p, p),
                                   QAdd(QMul(QMul(q, q), <<s, 1>>),
                                        QMul(QMul(r, r), <<t, 1>>))),
                              QMul(<<-2, 1>>, QMul(q, r)), s * t)
CrossSign(p, q, r, s, t) ==
    CrossSignFrom(p, q, r, s, t,
                  IF q[1] > 0 /\ r[1] > 0 THEN 1
                  ELSE IF q[1] < 0 /\ r[1] < 0 THEN -1
                  ELSE Sgn(q[1]) * Sgn(QSub(QMul(QMul(q, q), <<s, 1>>),
                                            QMul(QMul(r, r), <<t, 1>>))[1]))

\* a < b
RLess(a, b) ==
    IF Len(a) = 2 /\ Len(b) = 2 THEN QSub(a, b)[1] < 0
    ELSE IF Len(a) = 2 \/ Len(b) = 2 \/ a[5] = b[5] THEN Sign(RSub(a, b)) < 0
    ELSE CrossSign(QSub(RatPart(a), RatPart(b)), RootPart(a), QNeg(RootPart(b)),
                   a[5], b[5]) < 0

RAbs(a) == IF Sign(a) < 0 THEN RNeg(a) ELSE a

\* math.Max and math.Min
RMax(a, b) == IF RLess(a, b) THEN b ELSE a
RMin(a, b) == IF RLess(b, a) THEN b ELSE a

\* the natural number a with (216*a)^2 <= n < (216*(a+1))^2, n being a
\* 32-bit natural number
CoarseRoot(n) ==
    CHOOSE a \in 0..214 :
       /\ a * a * 46656 <= n
       /\ a < 214 => (a + 1) * (a + 1) * 46656 > n

\* the natural numbers whose square is n: one or none
IntRoot(n) ==
    { r \in (216 * CoarseRoot(n))..(216 * CoarseRoot(n) + 215) :
         r <= 46340 /\ r * r = n }

\* the largest of the given natural numbers
Largest(S) == CHOOSE k \in S : \A j \in S : j <= k

\* the largest k whose square divides the natural number m > 0
SquarePart(m) ==
    Largest({ k \in 1..(216 * CoarseRoot(m) + 215) :
                k <= 46340 /\ k * k <= m /\ m % (k * k) = 0 })

\* sqrt(n/d) = sqrt(n * d) / d = (k/d) * sqrt(s), where n * d = k^2 * s and
\* s is free of squares
SurdRoot(m, d) ==
    With(SquarePart(m),
         LAMBDA k : Surd(Zero, Rat(k, d), m \div (k * k)))

\* the rational q is the square of a rational, and that rational
IsSquare(q) == q[1] >= 0 /\ IntRoot(q[1]) # {} /\ IntRoot(q[2]) # {}
QRoot(q) == <<CHOOSE r \in IntRoot(q[1]) : TRUE, CHOOSE r \in IntRoot(q[2]) : TRUE>>

\* |c + d * sqrt(s)| for the c > 0 whose square is c2 and d = b / (2 * c)
SurdOfSquare(b, s, c2) ==
    With(QRoot(c2),
         LAMBDA c : RAbs(Surd(c, QMul(b, QInv(QMul(<<2, 1>>, c))), s)))

\* sqrt(a + b * sqrt(s)) where a + b * sqrt(s) = (c + d * sqrt(s))^2 for
\* rationals c and d: then c^2 + d^2 * s = a and 2 * c * d = b, so that
\* a^2 - b^2 * s is the square of norm = c^2 - d^2 * s and c^2 is
\* (a + norm) / 2 or (a - norm) / 2.  Other roots have no value here.
SurdRootFrom(a, b, s, norm) ==
    IF IsSquare(QMul(QAdd(a, norm), <<1, 2>>)) /\ QAdd(a, norm)[1] # 0
    THEN SurdOfSquare(b, s, QMul(QAdd(a, norm), <<1, 2>>))
    ELSE IF IsSquare(QMul(QSub(a, norm), <<1, 2>>)) /\ QSub(a, norm)[1] # 0
    THEN SurdOfSquare(b, s, QMul(QSub(a, norm), <<1, 2>>))
    ELSE CHOOSE r \in {} : TRUE
SurdSqrt(a, b, s) ==
    IF IsSquare(QSub(QMul(a, a), QMul(QMul(b, b), <<s, 1>>)))
    THEN SurdRootFrom(a, b, s, QRoot(QSub(QMul(a, a), QMul(QMul(b, b), <<s, 1>>))))
    ELSE CHOOSE r \in {} : TRUE

\* math.Sqrt of a >= 0
RSqrt(a) ==
    IF Len(a) # 2 THEN SurdSqrt(RatPart(a), RootPart(a), a[5])
    ELSE IF a[1] = 0 THEN a
    ELSE IF IntRoot(a[1]) # {} /\ IntRoot(a[2]) # {}
    THEN <<CHOOSE r \in IntRoot(a[1]) : TRUE, CHOOSE r \in IntRoot(a[2]) : TRUE>>
    ELSE SurdRoot(a[1] * a[2], a[2])

\* math.Pow(a, n) for a natural number n
RECURSIVE RPow(_, _)
RPow(a, n) == IF n = 0 THEN One ELSE RMul(a, RPow(a, n - 1))

square(a) == RMul(a, a)

\* clamp limits x between min and max
clamp(min, max, a) == RMin(RMax(a, min), max)

\* -------------------------------------------------------------------- Vec3
Vec3(a, b, c) == [X |-> a, Y |-> b, Z |-> c]

\* &Vec3{}
ZeroVec == Vec3(Zero, Zero, Zero)

\* a vector of whole numbers
IntVec(a, b, c) == Vec3(FromInt(a), FromInt(b), FromInt(c))

Add(v, other) ==
    Vec3(RAdd(v.X, other.X), RAdd(v.Y, other.Y), RAdd(v.Z, other.Z))

Sub(v, other) ==
    Vec3(RSub(v.X, other.X), RSub(v.Y, other.Y), RSub(v.Z, other.Z))

Mul(v, other) ==
    Vec3(RMul(v.X, other.X), RMul(v.Y, other.Y), RMul(v.Z, other.Z))

Dot(v, other) ==
    RAdd(RAdd(RMul(v.X, other.X), RMul(v.Y, other.Y)), RMul(v.Z, other.Z))

Scale(v, s) == Vec3(RMul(v.X, s), RMul(v.Y, s), RMul(v.Z, s))

Length(v) == RSqrt(Dot(v, v))

\* v with every component divided by magnitude
DivideBy(v, magnitude) ==
    Vec3(RDiv(v.X, magnitude), RDiv(v.Y, magnitude), RDiv(v.Z, magnitude))

Normalize(v) == DivideBy(v, Length(v))

Neg(v) == Vec3(RNeg(v.X), RNeg(v.Y), RNeg(v.Z))

CosineSimilarity(v, other) ==
    RDiv(Dot(v, other), RMul(Length(v), Length(other)))

\* AddI: the value it leaves in v (and returns a pointer to)
AddI(v, other) == Add(v, other)

\* LerpI: the value it leaves in v (and returns a pointer to)
LerpI(v, other, t) ==
    Vec3(RAdd(v.X, RMul(RSub(other.X, v.X), t)),
         RAdd(v.Y, RMul(RSub(other.Y, v.Y), t)),
         RAdd(v.Z, RMul(RSub(other.Z, v.Z), t)))

\* ClampI: the value it leaves in c (and returns a pointer to)
ClampI(c) == Vec3(clamp(Zero, One, c.X), clamp(Zero, One, c.Y), clamp(Zero, One, c.Z))

\* ------------------------------------------------------------ scene objects
Ray(origin, direction) == [Origin |-> origin, Direction |-> direction]

Material(color, reflectivity, transparency, refractiveIndex, kd, ks, exponent) ==
    [Color |-> color, Reflectivity |-> reflectivity, Fuzziness |-> Zero,
     Transparency |-> transparency, RefractiveIndex |-> refractiveIndex,
     Kd |-> kd, Ks |-> ks, SpecularExponent |-> exponent]

\* a *Sphere with a fixed Material and no SurfaceFn; Ptr is its address
SphereObject(ptr, center, radius, material) ==
    [Ptr |-> ptr, Center |-> center, Radius |-> radius, Material |-> material,
     SurfaceFn |-> NilValue, EvalState |-> "nil"]

Light(position, color) == [Position |-> position, Color |-> color]

Hit(object, t, hitPoint, normal, material) ==
    [Object |-> object, T |-> t, Point |-> hitPoint, Normal |-> normal,
     Material |-> material]

\* a nil *Hit
NoHit == [Object |-> 0]
IsNoHit(hit) == hit.Object = 0

Scene(width, height, fov, depth, objects, lights, ambient, bgStart, bgEnd) ==
    [WidthPx |-> width, HeightPx |-> height, Fov |-> fov,
     RecursionDepth |-> depth, Objects |-> objects, Lights |-> lights,
     AmbientLight |-> ambient, BgColorStart |-> bgStart, BgColorEnd |-> bgEnd]

\* ------------------------------------------------------- surface functions
\* the zero Material
NoMaterial == Material(ZeroVec, Zero, Zero, Zero, Zero, Zero, Zero)

\* a *Sphere whose surface is computed by the closure fn; evalState is "nil"
\* or "state", a pointer to the one EvalState there is
SurfaceSphere(ptr, center, radius, fn, evalState) ==
    [Ptr |-> ptr, Center |-> center, Radius |-> radius, Material |-> NoMaterial,
     SurfaceFn |-> fn, EvalState |-> evalState]

\* an EvalState as a value: e.Stack, the heap of maps and e.CurrToken
Evaluated(stack, heap, tk) ==
    [Stack |-> stack, maps |-> heap, CurrToken |-> tk]

\* the EvalState as it is now
EvalStateNow == Evaluated(Stack, maps, CurrToken)

\* the error a call on the EvalState returns, and the EvalState as the call
\* leaves it
Stepped(es, e) == [es |-> es, err |-> e]

\* evalOneStep(tk) with e.Env = env, as a function of the EvalState, for the
\* tokens the surface functions of the scenes are written with: literals,
\* binders, variables and the builtin point
evalOneStep(tk, es, env) ==
    CASE tk.k = "FloatLiteral" ->
           Stepped(Evaluated(push(es.Stack, VReal(tk.n)), es.maps, tk), "none")
      [] tk.k = "IntLiteral" ->
           Stepped(Evaluated(push(es.Stack, VInt(tk.n)), es.maps, tk), "none")
      [] tk.k = "Binder" ->
           LET r == pop(es.Stack) IN
           IF r.err # "none" THEN Stepped(Evaluated(r.stack, es.maps, tk), r.err)
           ELSE Stepped(Evaluated(r.stack,
                                  [es.maps EXCEPT
                                      ![env] = SetBinding(@, tk.Name, r.val)],
                                  tk),
                        "none")
      [] tk.k = "Identifier" /\ ~IsBuiltin(tk.Name) ->
           IF tk.Name \in DOMAIN es.maps[env]
           THEN Stepped(Evaluated(push(es.Stack, es.maps[env][tk.Name]), es.maps, tk),
                        "none")
           ELSE Stepped(Evaluated(es.Stack, es.maps, tk), "UnboundIdentifier")
      [] tk.k = "Identifier" /\ IsBuiltin(tk.Name) /\ builtins[tk.Name] = "point" ->
           LET r == pop3(es.Stack, "VReal") IN
           IF r.err # "none" THEN Stepped(Evaluated(r.stack, es.maps, tk), r.err)
           ELSE Stepped(Evaluated(push(r.stack, Point(r.x.n, r.y.n, r.z.n)),
                                  es.maps, tk),
                        "none")

\* the loop of Eval(code) from token i on: the error of the first step that
\* returns one, or nil after the last token
RECURSIVE EvalFrom(_, _, _, _)
EvalFrom(code, i, es, env) ==
    IF i > Len(code) THEN Stepped(es, "none")
    ELSE With(evalOneStep(code[i], es, env),
              LAMBDA step : IF step.err # "none" THEN step
                            ELSE EvalFrom(code, i + 1, step.es, env))

pointToVec3(p) == Vec3(p.X, p.Y, p.Z)

\* the natural number the specular exponent is, for math.Pow
Whole(r) == IF r[2] = 1 /\ r[1] >= 0 THEN r[1] ELSE CHOOSE n \in {} : TRUE

\* math.Acos(x) / (2.0 * math.Pi) where the result is a rational number
Turns(x) ==
    CASE x = One -> Zero
      [] x = Rat(1, 2) -> Rat(1, 6)
      [] x = Zero -> Rat(1, 4)
      [] x = Rat(-1, 2) -> Rat(1, 3)
      [] x = FromInt(-1) -> Rat(1, 2)

\* u := math.Acos(point.Z/math.Sqrt(1.0-point.Y*point.Y)) / (2.0 * math.Pi):
\* the number where it is rational, and otherwise (an irrational number or
\* NaN) the float64 named by the Y and Z it is computed from
UCoordinate(hitPoint) ==
    IF hitPoint.Y = Zero /\ hitPoint.Z \in {One, Rat(1, 2), Zero, Rat(-1, 2), FromInt(-1)}
    THEN Turns(hitPoint.Z)
    ELSE [acos |-> <<hitPoint.Y, hitPoint.Z>>]

\* v := (point.Y + 1.0) / 2.0
VCoordinate(hitPoint) == RDiv(RAdd(hitPoint.Y, One), FromInt(2))

\* what computeSphereSurface returns, and the EvalState as it leaves it
Surface(material, e, es) == [material |-> material, err |-> e, es |-> es]

\* computeSphereSurface from the call of Pop3 on
SurfaceFromStack(es) ==
    LET r == pop3(es.Stack, "VReal") IN
    IF r.err # "none" THEN Surface(NoMaterial, r.err, [es EXCEPT !.Stack = r.stack])
    ELSE LET c == popValue(r.stack, "Point") IN
         IF c.err # "none"
         THEN Surface(NoMaterial, c.err, [es EXCEPT !.Stack = c.stack])
         ELSE Surface(Material(pointToVec3(c.val), Zero, Zero, Zero,
                               r.x.n, r.y.n, r.z.n),
                      "none", [es EXCEPT !.Stack = c.stack])

\* computeSphereSurface from the return of Eval on
SurfaceFromEval(evaluated) ==
    IF evaluated.err # "none" THEN Surface(NoMaterial, evaluated.err, evaluated.es)
    ELSE SurfaceFromStack(evaluated.es)

\* computeSphereSurface on the EvalState es: for a sphere without SurfaceFn
\* &sphere.Material; else face, u and v are pushed, the body runs in the
\* closure's environment and the Material is popped
computeSphereSurfaceOn(sph, hitPoint, es) ==
    IF sph.SurfaceFn.t = "nil" THEN Surface(sph.Material, "none", es)
    ELSE IF sph.EvalState = "nil" THEN Surface(NoMaterial, "NoEvalState", es)
    ELSE With(EvalFrom(sph.SurfaceFn.Code, 1,
                       [es EXCEPT !.Stack = push(push(push(es.Stack, VInt(0)),
                                                      VReal(UCoordinate(hitPoint))),
                                                 VReal(VCoordinate(hitPoint)))],
                       sph.SurfaceFn.Env),
              LAMBDA after : SurfaceFromEval(after))

\* what Intersect returns, and the EvalState as the call leaves it
Intersected(hit, es) == [hit |-> hit, es |-> es]

\* an Intersect that reports the hit of a sphere whose surface function
\* failed
IntersectAtDespiteError(sph, ray, t0, hitPoint, es) ==
    IF RLess(Zero, t0)
    THEN With(computeSphereSurfaceOn(sph, hitPoint, es),
              LAMBDA surface :
                 Intersected(Hit(sph.Ptr, t0, hitPoint,
                                 Normalize(Sub(hitPoint, sph.Center)),
                                 surface.material),
                             surface.es))
    ELSE Intersected(NoHit, es)

\* Intersect from `if t0 > 0.0` on, the EvalState being es: the hit at the
\* near root, or nil when the root is not positive or computeSphereSurface
\* returned an error; the EvalState is as computeSphereSurface left it
IntersectAt(sph, ray, t0, hitPoint, es) ==
    IF RLess(Zero, t0)
    THEN With(computeSphereSurfaceOn(sph, hitPoint, es),
              LAMBDA surface :
                 Intersected(IF surface.err # "none" THEN NoHit
                             ELSE Hit(sph.Ptr, t0, hitPoint,
                                      Normalize(Sub(hitPoint, sph.Center)),
                                      surface.material),
                             surface.es))
    ELSE Intersected(NoHit, es)

\* Intersect from the near root t0 := t_ca - t_hc on
IntersectNear(sph, ray, t0, es) ==
    IntersectAt(sph, ray, t0, Add(ray.Origin, Scale(ray.Direction, t0)), es)

\* Intersect from math.Sqrt on, were it to take the far root t_ca + t_hc
IntersectRootFar(sph, ray, t_ca, radicand, es) ==
    IF RLess(radicand, Zero) THEN Intersected(NoHit, es)
    ELSE IntersectNear(sph, ray, RAdd(t_ca, RSqrt(radicand)), es)

\* Intersect from math.Sqrt on.  A negative radicand makes math.Sqrt return
\* NaN, and then t0 > 0.0 is false.
IntersectRoot(sph, ray, t_ca, radicand, es) ==
    IF RLess(radicand, Zero) THEN Intersected(NoHit, es)
    ELSE IntersectNear(sph, ray, RSub(t_ca, RSqrt(radicand)), es)

\* Intersect from `if t_ca < 0.0` on
IntersectFrom(sph, ray, L, t_ca, es) ==
    IF RLess(t_ca, Zero) THEN Intersected(NoHit, es)
    ELSE IntersectRoot(sph, ray, t_ca,
                       RSub(square(sph.Radius), RSub(Dot(L, L), square(t_ca))), es)

\* Intersect from t_ca := L.Dot(ray.Direction) on
IntersectL(sph, ray, L, es) == IntersectFrom(sph, ray, L, Dot(L, ray.Direction), es)

\* (*Sphere).Intersect called when the EvalState is es
Intersect(sph, ray, es) == IntersectL(sph, ray, Sub(sph.Center, ray.Origin), es)

\* the const epsilon of inShadow and the 1e-4 offsets of traceRay
epsilon == Rat(1, 10000)

\* a hit on the shadow ray that counts wherever it lies
OccludesAtAnyDistance(shadowHit, ray, distToLight) == ~IsNoHit(shadowHit)

\* the test of inShadow on the hit of one object on the shadow ray
Occludes(shadowHit, ray, distToLight) ==
    /\ ~IsNoHit(shadowHit)
    /\ RLess(RMul(shadowHit.T, Length(ray.Direction)), distToLight)

\* what inShadow returns, and the EvalState as the call leaves it
Shadowed(shadow, es) == [shadow |-> shadow, es |-> es]

\* the loop of inShadow from object k on, the EvalState being es: the hit
\* object is passed over, every other object is asked on the EvalState the
\* objects before it left, and the first that occludes ends the loop
RECURSIVE ShadowedFrom(_, _, _, _, _, _, _)
ShadowedFrom(k, hit, sc, shadowRay, distToLight, ray, es) ==
    IF k > Len(sc.Objects) THEN Shadowed(FALSE, es)
    ELSE IF sc.Objects[k].Ptr = hit.Object
    THEN ShadowedFrom(k + 1, hit, sc, shadowRay, distToLight, ray, es)
    ELSE With(Intersect(sc.Objects[k], shadowRay, es),
              LAMBDA shadowHit :
                 IF Occludes(shadowHit.hit, ray, distToLight)
                 THEN Shadowed(TRUE, shadowHit.es)
                 ELSE ShadowedFrom(k + 1, hit, sc, shadowRay, distToLight, ray,
                                   shadowHit.es))

inShadow(hit, sc, lightDir, distToLight, ray, es) ==
    With(Ray(Add(hit.Point, Scale(hit.Normal, epsilon)), lightDir),
         LAMBDA shadowRay :
            ShadowedFrom(1, hit, sc, shadowRay, distToLight, ray, es))

\* a light that adds its diffuse term only
PhongNoSpecular(light, hit, ray, lightDir) ==
    Scale(Mul(hit.Material.Color, light.Color),
          RMul(RMax(Zero, Dot(hit.Normal, lightDir)), hit.Material.Kd))

\* the diffuse and the specular term of a light that is not in shadow
Phong(light, hit, ray, lightDir) ==
    LET V == Neg(ray.Direction)
        mat == hit.Material
        diff == RMul(RMax(Zero, Dot(hit.Normal, lightDir)), mat.Kd)
        diffuse == Scale(Mul(mat.Color, light.Color), diff)
        specular(spec) ==
            Scale(light.Color, RMul(mat.Ks, RPow(spec, Whole(mat.SpecularExponent))))
    IN  With(Normalize(Add(V, lightDir)),
             LAMBDA H : With(RMax(Zero, Dot(hit.Normal, H)),
                             LAMBDA spec : Add(diffuse, specular(spec))))

\* what computeLighting has added up, and the EvalState as it is then
Lit(color, es) == [color |-> color, es |-> es]

\* the body of the loop of computeLighting from the shadow test on
LightFrom(light, hit, sc, ray, lightDir, distToLight, es) ==
    With(inShadow(hit, sc, lightDir, distToLight, ray, es),
         LAMBDA s : Lit(IF s.shadow THEN ZeroVec ELSE Phong(light, hit, ray, lightDir),
                        s.es))

\* the body of the loop of computeLighting from lightToHit on
LightTo(light, hit, sc, ray, lightToHit, es) ==
    With(Normalize(lightToHit),
         LAMBDA lightDir :
            LightFrom(light, hit, sc, ray, lightDir, Length(lightToHit), es))

\* what one light adds to the result of computeLighting
LightTerm(light, hit, sc, ray, es) ==
    With(Sub(light.Position, hit.Point),
         LAMBDA lightToHit : LightTo(light, hit, sc, ray, lightToHit, es))

\* the loop of computeLighting from light k on: the shadow rays of a light
\* are traced on the EvalState those of the lights before it left
RECURSIVE AddLights(_, _, _, _, _, _)
AddLights(acc, k, hit, sc, ray, es) ==
    IF k > Len(sc.Lights) THEN Lit(acc, es)
    ELSE With(LightTerm(sc.Lights[k], hit, sc, ray, es),
              LAMBDA term : AddLights(AddI(acc, term.color), k + 1, hit, sc, ray,
                                      term.es))

computeLighting(hit, sc, ray, es) ==
    AddLights(Scale(Mul(hit.Material.Color, sc.AmbientLight), hit.Material.Kd),
              1, hit, sc, ray, es)

\* a nil *Vec3, and a *Vec3 that is not nil
NilVec == [nil |-> TRUE, vec |-> ZeroVec]
SomeVec(v) == [nil |-> FALSE, vec |-> v]

\* refract from the test for total internal reflection on
refractFrom(incident, normal, ratio, cosI, sinT2) ==
    IF RLess(One, sinT2) THEN NilVec
    ELSE SomeVec(Add(Scale(incident, ratio),
                     Scale(normal, RSub(RMul(ratio, cosI), RSqrt(RSub(One, sinT2))))))

\* refract from sinT2 on
refractAt(incident, normal, ratio, cosI) ==
    refractFrom(incident, normal, ratio, cosI,
                RMul(RMul(ratio, ratio), RSub(One, RMul(cosI, cosI))))

\* refract: the refracted direction, or nil under total internal reflection
refract(incident, normal, n1, n2) ==
    refractAt(incident, normal, RDiv(n1, n2), RNeg(Dot(normal, incident)))

\* Schlick's approximation from r0 and cost: r0 along the normal
Schlick(r0, cost) ==
    IF cost = One THEN r0
    ELSE RAdd(r0, RMul(RSub(One, r0), RPow(RSub(One, cost), 5)))

\* fresnel: the reflection coefficient kr
fresnel(normal, incident, ior) ==
    Schlick(square(RDiv(RSub(One, ior), RAdd(One, ior))),
            RAbs(CosineSimilarity(incident, normal)))

\* the hit kept when a later object is preferred among equally near ones
CloserOrEqual(minHit, hit) ==
    IF IsNoHit(hit) THEN minHit
    ELSE IF IsNoHit(minHit) \/ ~RLess(minHit.T, hit.T) THEN hit
    ELSE minHit

\* the hit closestHit keeps: the earlier one unless the new one is nearer
Closer(minHit, hit) ==
    IF IsNoHit(hit) THEN minHit
    ELSE IF IsNoHit(minHit) \/ RLess(hit.T, minHit.T) THEN hit
    ELSE minHit

\* the loop of closestHit from object k on, minHit being the best so far:
\* every object is asked on the EvalState the objects before it left
RECURSIVE closestFrom(_, _, _, _, _)
closestFrom(minHit, k, sc, ray, es) ==
    IF k > Len(sc.Objects) THEN Intersected(minHit, es)
    ELSE With(Intersect(sc.Objects[k], ray, es),
              LAMBDA hit : closestFrom(Closer(minHit, hit.hit), k + 1, sc, ray,
                                       hit.es))

closestHit(sc, ray, es) == closestFrom(NoHit, 1, sc, ray, es)

\* ------------------------------------------------------------------ inputs
\* Color, Reflectivity, Transparency, RefractiveIndex, Kd, Ks, exponent
Orange == Vec3(One, Rat(1, 2), Zero)
Matte == Material(Orange, Zero, Zero, Zero, Rat(1, 2), Rat(1, 4), FromInt(2))
Mirror == Material(Orange, Rat(1, 2), Zero, Zero, Rat(1, 2), Rat(1, 4), FromInt(2))
Glass == Material(Orange, Zero, Rat(1, 2), One, Rat(1, 2), Rat(1, 4), FromInt(2))
GlassMirror == Material(Orange, Rat(1, 2), Rat(1, 2), FromInt(3), Rat(1, 2), Rat(1, 4), FromInt(2))
Materials == {Matte, Mirror, Glass, GlassMirror}

\* a sphere in front of the screen on the axis of the camera, with the given
\* material; behind the camera, or not, a mirror facing it; between the two
\* a light
FrontSphere(material) ==
    SphereObject(1, Vec3(Zero, Zero, One), Rat(1, 2), material)
BackMirror ==
    SphereObject(2, Vec3(Zero, Zero, FromInt(-2)), Rat(1, 2),
                 Material(Vec3(Zero, One, One), One, Zero, Zero, One, Zero, Zero))
AxisLight == Light(Vec3(Zero, Zero, Rat(-1, 2)), Vec3(One, One, One))

\* a 2 x 2 picture of the spheres against a gradient background
SceneOf(material, withBack, depth, fov) ==
    Scene(2, 2, fov, depth,
          IF withBack THEN <<FrontSphere(material), BackMirror>>
                      ELSE <<FrontSphere(material)>>,
          <<AxisLight>>,
          Vec3(Rat(1, 2), Rat(1, 2), Rat(1, 2)),
          Vec3(Zero, Zero, Zero),
          Vec3(Rat(1, 2), Rat(3, 4), One))

\* a 2 x 2 picture of the given objects under the given lights, with the
\* field of view of 90 degrees
SceneWith(objects, lights, depth) ==
    Scene(2, 2, FromInt(90), depth, objects, lights,
          Vec3(Rat(1, 2), Rat(1, 2), Rat(1, 2)),
          Vec3(Zero, Zero, Zero),
          Vec3(Rat(1, 2), Rat(3, 4), One))

\* a small sphere between the front sphere and the light
Occluder ==
    SphereObject(3, Vec3(Zero, Zero, Rat(-1, 4)), Rat(1, 8), Matte)
\* the materials of the front sphere that send no ray back to the occluder
ShadowMaterials == {Matte, Glass}
ShadowScene(material, depth) ==
    SceneWith(<<FrontSphere(material), BackMirror, Occluder>>, <<AxisLight>>, depth)

\* a sphere behind the front sphere, listed before it
FarSphere ==
    SphereObject(4, Vec3(Zero, Zero, FromInt(3)), Rat(1, 2), Matte)
DeepScene(material, depth) ==
    SceneWith(<<FarSphere, FrontSphere(material)>>, <<AxisLight>>, depth)

\* a second sphere at the place of the front sphere, listed after it
TwinSphere ==
    SphereObject(5, Vec3(Zero, Zero, One), Rat(1, 2), Matte)
TwinScene(depth) ==
    SceneWith(<<FrontSphere(Mirror), TwinSphere>>, <<AxisLight>>, depth)

\* a sphere off the axis that the ray through (3/8, 0) of pixel (1, 1)
\* strikes at an angle, of a material less dense than air, with no light
\* and a background of one colour
ThinGlass ==
    Material(Orange, Rat(1, 2), Rat(1, 2), Rat(1, 2), Rat(1, 2), Rat(1, 4), FromInt(2))
SideMaterials == {Mirror, ThinGlass}
SideSphere(material) ==
    SphereObject(6, Vec3(Rat(3, 2), Zero, Rat(3, 2)), Rat(1, 2), material)
Gray == Vec3(Rat(1, 2), Rat(1, 2), Rat(1, 2))
SideScene(material, depth) ==
    Scene(2, 2, FromInt(90), depth, <<SideSphere(material)>>, <<>>,
          Gray, Gray, Gray)

\* the surface functions: closures over map 2 of the heap, whose bodies
\* bind v, u and face and leave the colour (1, v, 0) and kd, ks, n of Matte;
\* leave nothing; name an unbound variable; leave four numbers and no point
SurfaceEnv == 2
ColourByV ==
    <<Binder("v"), Binder("u"), Binder("face"),
      FloatLiteral(One), Identifier("v"), FloatLiteral(Zero), Identifier("point"),
      FloatLiteral(Rat(1, 2)), FloatLiteral(Rat(1, 4)), FloatLiteral(FromInt(2))>>
LeavesNothing == <<>>
Unbound == <<Identifier("x")>>
NoColour ==
    <<FloatLiteral(One), FloatLiteral(One), FloatLiteral(One), FloatLiteral(One)>>
FailingBodies == {LeavesNothing, Unbound, NoColour}

\* the front sphere with a surface function, with or without an EvalState
SurfaceSpheres ==
    { SurfaceSphere(7, Vec3(Zero, Zero, One), Rat(1, 2),
                    VClosure(body, SurfaceEnv), "state") :
        body \in {ColourByV} \cup FailingBodies }
    \cup { SurfaceSphere(7, Vec3(Zero, Zero, One), Rat(1, 2),
                         VClosure(ColourByV, SurfaceEnv), "nil") }

\* the far sphere behind a sphere with a surface function
SurfaceScene(sph, depth) ==
    SceneWith(<<FarSphere, sph>>, <<AxisLight>>, depth)

\* the heap of the EvalState when Render is called
SceneMaps(sc) ==
    IF \E i \in DOMAIN sc.Objects : sc.Objects[i].SurfaceFn.t # "nil"
    THEN <<EmptyEnv, EmptyEnv>>
    ELSE <<EmptyEnv>>

\* a sphere beside the axis of the camera that touches it in (0, 0, 1), and
\* the mirror behind the camera, with no light
GrazedSphere ==
    SphereObject(8, Vec3(Rat(1, 2), Zero, One), Rat(1, 2), Matte)
GrazingScene(depth) ==
    SceneWith(<<GrazedSphere, BackMirror>>, <<>>, depth)

\* surface functions whose result depends on the stack they are called on:
\* one leaves the point (0, 0, 1) under the colour it returns, the other
\* leaves no colour and returns as colour the point it finds
LeavesPoint ==
    <<Binder("v"), Binder("u"), Binder("face"),
      FloatLiteral(Zero), FloatLiteral(Zero), FloatLiteral(One), Identifier("point"),
      FloatLiteral(One), Identifier("v"), FloatLiteral(Zero), Identifier("point"),
      FloatLiteral(Rat(1, 2)), FloatLiteral(Rat(1, 4)), FloatLiteral(FromInt(2))>>
TakesColour ==
    <<Binder("v"), Binder("u"), Binder("face"),
      FloatLiteral(Rat(1, 2)), FloatLiteral(Rat(1, 4)), FloatLiteral(FromInt(2))>>

\* a sphere whose surface function has the given body and runs on the one
\* EvalState
ShadedSphere(ptr, center, radius, body) ==
    SurfaceSphere(ptr, center, radius, VClosure(body, SurfaceEnv), "state")

\* the far sphere leaves the point that the front sphere, listed after it,
\* takes as its colour; no light
BorrowingScene(depth) ==
    SceneWith(<<ShadedSphere(4, Vec3(Zero, Zero, FromInt(3)), Rat(1, 2), LeavesPoint),
                ShadedSphere(7, Vec3(Zero, Zero, One), Rat(1, 2), TakesColour)>>,
              <<>>, depth)

\* on the shadow ray of the front sphere the sphere behind the camera leaves
\* the point that the occluder, listed after it, takes as its colour
BorrowingShadowScene(depth) ==
    SceneWith(<<FrontSphere(Matte),
                ShadedSphere(2, Vec3(Zero, Zero, FromInt(-2)), Rat(1, 2), LeavesPoint),
                ShadedSphere(3, Vec3(Zero, Zero, Rat(-1, 4)), Rat(1, 8), TakesColour)>>,
              <<AxisLight>>, depth)

\* on the camera ray the far sphere leaves the point that the occluder takes
\* as its colour on the shadow ray of the first of two lights
TwoLightScene(depth) ==
    SceneWith(<<FrontSphere(Matte),
                ShadedSphere(4, Vec3(Zero, Zero, FromInt(3)), Rat(1, 2), LeavesPoint),
                ShadedSphere(3, Vec3(Zero, Zero, Rat(-1, 4)), Rat(1, 8), TakesColour)>>,
              <<AxisLight, AxisLight>>, depth)

\* the far sphere, whose surface function fails, is listed before the front
\* sphere, whose surface function gives the colour (1, v, 0); no light
FailingFirstScene(body, depth) ==
    SceneWith(<<ShadedSphere(4, Vec3(Zero, Zero, FromInt(3)), Rat(1, 2), body),
                ShadedSphere(7, Vec3(Zero, Zero, One), Rat(1, 2), ColourByV)>>,
              <<>>, depth)

\* on the shadow ray of the front sphere the sphere behind the camera, whose
\* surface function fails, is asked before the occluder, whose surface
\* function gives a colour
FailingShadowScene(body, depth) ==
    SceneWith(<<FrontSphere(Matte),
                ShadedSphere(2, Vec3(Zero, Zero, FromInt(-2)), Rat(1, 2), body),
                ShadedSphere(3, Vec3(Zero, Zero, Rat(-1, 4)), Rat(1, 8), ColourByV)>>,
              <<AxisLight>>, depth)

\* a sphere above the axis of the camera, which the ray along the axis
\* meets where the square root of Intersect is that of 3/4; no light
RaisedSphere ==
    SphereObject(9, Vec3(Zero, Rat(1, 2), FromInt(3)), One, Matte)
RaisedScene(depth) == SceneWith(<<RaisedSphere>>, <<>>, depth)

\* the largest recursion depth a scene asks for
MaxRecursionDepth == 3

Scenes ==
    { SceneOf(material, withBack, depth, fov) :
        material \in Materials, withBack \in BOOLEAN,
        depth \in 0..MaxRecursionDepth, fov \in {Zero, FromInt(90)} }
    \cup { ShadowScene(material, depth) :
              material \in ShadowMaterials, depth \in 0..MaxRecursionDepth }
    \cup { DeepScene(material, depth) :
              material \in Materials, depth \in 0..MaxRecursionDepth }
    \cup { TwinScene(depth) : depth \in 0..MaxRecursionDepth }
    \cup { SideScene(material, depth) :
              material \in SideMaterials, depth \in 0..MaxRecursionDepth }
    \cup { SurfaceScene(sph, depth) :
              sph \in SurfaceSpheres, depth \in 1..MaxRecursionDepth }
    \cup { GrazingScene(depth) : depth \in 1..MaxRecursionDepth }
    \cup { BorrowingScene(depth) : depth \in 1..MaxRecursionDepth }
    \cup { BorrowingShadowScene(depth) : depth \in 1..MaxRecursionDepth }
    \cup { TwoLightScene(depth) : depth \in 1..MaxRecursionDepth }
    \cup { FailingFirstScene(body, depth) :
              body \in FailingBodies, depth \in 1..MaxRecursionDepth }
    \cup { FailingShadowScene(body, depth) :
              body \in FailingBodies, depth \in 1..MaxRecursionDepth }
    \cup { RaisedScene(depth) : depth \in 1..MaxRecursionDepth }

\* the pairs of rand.Float64() results explored for the samples of pixel
\* (x, y) of a 2 x 2 picture: those that give the ray a rational direction
Randoms(x, y) ==
    IF x = 1 /\ y = 1
    THEN { <<Zero, Zero>>, <<Rat(3, 8), Zero>> }
    ELSE IF y = 1 THEN { <<Rat(5, 8), Zero>> }
    ELSE { <<Rat(1, 2), Rat(3, 4)>> }

\* the same for the samples of pixel (x, y) of a picture 3 wide and 2 high
WideRandoms(x, y) ==
    IF y = 1
    THEN { <<Rat(3 - x, 4), Zero>> }
    ELSE IF x = 1 THEN { <<Rat(1, 2), Rat(7, 16)>> }
    ELSE { <<Rat(1, 2), Rat(1, 8)>> }

\* the pairs explored for the samples of pixel (x, y) of the scene sc
RandomsOf(sc, x, y) ==
    CASE sc.WidthPx = 2 /\ sc.HeightPx = 2 -> Randoms(x, y)
      [] sc.WidthPx = 3 /\ sc.HeightPx = 2 -> WideRandoms(x, y)

\* ------------------------------------------------------------------ Render
\* math.Tan(fovRadians / 2.0) for the field of view of 90 degrees
TanHalf(fov) == IF fov = FromInt(90) THEN One ELSE CHOOSE r \in {} : TRUE

numSamples == 4

\* the ray from the eye through screenPoint
PrimaryRay(screenPoint, eyePosition) ==
    Ray(screenPoint, Normalize(Sub(screenPoint, eyePosition)))

\* one coordinate of the screen point: pixel coordinate p of n pixels,
\* jitter d, viewport extent
ScreenCoordinate(p, d, n, viewport) ==
    RSub(RMul(RDiv(RAdd(FromInt(p), d), FromInt(n - 1)), viewport),
         RDiv(viewport, FromInt(2)))

\* the sample loop from du on
CameraRayIn(sc, x, y, r1, r2, viewportWidth, viewportHeight) ==
    PrimaryRay(Vec3(ScreenCoordinate(x, RSub(r1, Rat(1, 2)), sc.WidthPx, viewportWidth),
                    RNeg(ScreenCoordinate(y, RSub(r2, Rat(1, 2)), sc.HeightPx, viewportHeight)),
                    Zero),
               Vec3(Zero, Zero, FromInt(-1)))

\* the viewport of Render from viewportHeight on
CameraRayWide(sc, x, y, r1, r2, viewportWidth) ==
    CameraRayIn(sc, x, y, r1, r2, viewportWidth,
                RMul(viewportWidth, RDiv(FromInt(sc.HeightPx), FromInt(sc.WidthPx))))

\* the ray Render builds for pixel (x, y) from the random numbers r1 and r2
CameraRay(sc, x, y, r1, r2) ==
    CameraRayWide(sc, x, y, r1, r2, RDiv(FromInt(2), TanHalf(sc.Fov)))

\* a *Vec3: either a vector of its own or the address of scene.BgColorStart
Fresh(v) == [alias |-> FALSE, vec |-> v]
BgColorStartPtr == [alias |-> TRUE, vec |-> ZeroVec]
Deref(ptr, sc) == IF ptr.alias THEN sc.BgColorStart ELSE ptr.vec

\* an activation of traceRay at its first statement
Call(ray, depth) ==
    [ray |-> ray, depth |-> depth, pc |-> "enter", hit |-> NoHit,
     surfaceColor |-> ZeroVec, reflectedColor |-> Fresh(ZeroVec),
     refractedColor |-> Fresh(ZeroVec)]

\* image.Rect(x0, y0, x1, y1)
Rect(x0, y0, x1, y1) ==
    [Min |-> <<IF x0 > x1 THEN x1 ELSE x0, IF y0 > y1 THEN y1 ELSE y0>>,
     Max |-> <<IF x0 > x1 THEN x0 ELSE x1, IF y0 > y1 THEN y0 ELSE y1>>]

\* Rectangle.Empty
Empty(r) == r.Min[1] >= r.Max[1] \/ r.Min[2] >= r.Max[2]

\* the pixels of image.NewRGBA(r)
PixelsOf(r) == (r.Min[1]..(r.Max[1] - 1)) \X (r.Min[2]..(r.Max[2] - 1))

\* Render is called on the scene
RenderInit ==
    /\ given \in Scenes
    /\ scene = given
    /\ renderPc = "start"
    /\ recursionLimit = 0
    /\ pixelX = 0
    /\ pixelY = 0
    /\ sampleNo = 0
    /\ totalColor = ZeroVec
    /\ img = <<>>
    /\ calls = <<>>
    /\ result = Fresh(ZeroVec)
    \* no Eval is running on the EvalState
    /\ program = <<>>
    /\ renderSet = FALSE
    /\ Stack = <<>>
    /\ Env = 1
    /\ maps = SceneMaps(given)
    /\ CurrToken = NoToken
    /\ frames = <<>>
    /\ err = "none"
    /\ rendered = <<>>
    /\ LexIdle
    /\ ShaderIdle
    /\ GmlIdle
    /\ SsimIdle

\* a recursion limit that is taken from the scene as it is
DefaultRecursionLimitNone(depth) == depth

\* recursionLimit: scene.RecursionDepth, or 3 when that is not positive
DefaultRecursionLimit(depth) == IF depth <= 0 THEN 3 ELSE depth

\* Render up to its loops: the image, the recursion limit, the field of view
RenderStart ==
    /\ renderPc = "start"
    /\ img' = [p \in PixelsOf(Rect(0, 0, scene.WidthPx, scene.HeightPx)) |-> <<>>]
    /\ recursionLimit' = DefaultRecursionLimit(scene.RecursionDepth)
    /\ scene' = IF ~RLess(Zero, scene.Fov)
                THEN [scene EXCEPT !.Fov = FromInt(90)]
                ELSE scene
    /\ renderPc' = "loop"
    /\ pixelX' = 0
    /\ pixelY' = 0
    /\ sampleNo' = 0
    /\ totalColor' = ZeroVec
    /\ UNCHANGED <<given, calls, result, vars, lvars, svars, gvars, qvars>>

\* the body of `for x := range scene.WidthPx { for y := range scene.HeightPx`
\* runs for pixel (pixelX, pixelY); no traceRay is running
InLoop ==
    /\ renderPc = "loop"
    /\ calls = <<>>
    /\ pixelX < scene.WidthPx
    /\ pixelY < scene.HeightPx

\* one pass of the sample loop up to the call of traceRay
RenderSample ==
    /\ InLoop
    /\ sampleNo < numSamples
    /\ \E r \in RandomsOf(scene, pixelX, pixelY) :
          calls' = <<Call(CameraRay(scene, pixelX, pixelY, r[1], r[2]), recursionLimit)>>
    /\ UNCHANGED <<given, scene, renderPc, recursionLimit, pixelX, pixelY,
                   sampleNo, totalColor, img, result, vars, lvars, svars, gvars, qvars>>

\* img.Set of the averaged colour, the sum being kept for the next pixel
RenderSetPixelKeepsTotal ==
    /\ InLoop
    /\ sampleNo = numSamples
    /\ img' = [img EXCEPT ![<<pixelX, pixelY>>] =
                   Append(@, Scale(totalColor, Rat(1, numSamples)))]
    /\ IF pixelY + 1 < scene.HeightPx
       THEN pixelY' = pixelY + 1 /\ pixelX' = pixelX
       ELSE pixelY' = 0 /\ pixelX' = pixelX + 1
    /\ sampleNo' = 0
    /\ UNCHANGED <<given, scene, renderPc, recursionLimit, calls, result,
                   totalColor, vars, lvars, svars, gvars, qvars>>

\* img.Set of the averaged colour, and on to the next pixel
RenderSetPixel ==
    /\ InLoop
    /\ sampleNo = numSamples
    /\ img' = [img EXCEPT ![<<pixelX, pixelY>>] =
                   Append(@, Scale(totalColor, Rat(1, numSamples)))]
    /\ IF pixelY + 1 < scene.HeightPx
       THEN pixelY' = pixelY + 1 /\ pixelX' = pixelX
       ELSE pixelY' = 0 /\ pixelX' = pixelX + 1
    /\ sampleNo' = 0
    /\ totalColor' = ZeroVec
    /\ UNCHANGED <<given, scene, renderPc, recursionLimit, calls, result, vars, lvars, svars, gvars, qvars>>

\* the loops are over, or have no pass at all (a width or a height that is
\* not positive): return img
RenderReturn ==
    /\ renderPc = "loop"
    /\ calls = <<>>
    /\ pixelX >= scene.WidthPx \/ pixelY >= scene.HeightPx
    /\ renderPc' = "done"
    /\ UNCHANGED <<given, scene, recursionLimit, pixelX, pixelY, sampleNo,
                   totalColor, img, calls, result, vars, lvars, svars, gvars, qvars>>

\* ------------------------------------------ the EvalState during a Render
\* some sphere of the scene evaluates a surface function
HasSurfaceFn(sc) ==
    \E i \in DOMAIN sc.Objects :
        sc.Objects[i].SurfaceFn.t # "nil" /\ sc.Objects[i].EvalState # "nil"

\* the sphere with its Material fixed, which Intersect hits where it calls
\* computeSphereSurface for the sphere itself
Geometric(sph) == [sph EXCEPT !.SurfaceFn = NilValue]

\* the surface functions evaluated by a step leave the EvalState as es
EvalStateBecomes(es) ==
    /\ Stack' = es.Stack
    /\ maps' = es.maps
    /\ CurrToken' = es.CurrToken
    /\ UNCHANGED <<program, renderSet, Env, frames, err, rendered>>

\* ---------------------------------------------------------------- traceRay
\* the running activation of traceRay
active == calls[Len(calls)]

AtPc(pc) ==
    /\ calls # <<>>
    /\ active.pc = pc

\* the caller goes on with the pointer its call returned
Resume(caller, ptr) ==
    IF caller.pc = "reflecting"
    THEN [caller EXCEPT !.reflectedColor = ptr, !.pc = "refract"]
    ELSE [caller EXCEPT !.refractedColor = ptr, !.pc = "blend"]

\* the running activation returns ptr, the scene being sc and the EvalState
\* es from then on; a primary ray returns to Render, which adds the colour to
\* totalColor
ReturnAfter(ptr, sc, es) ==
    /\ result' = ptr
    /\ scene' = sc
    /\ IF Len(calls) = 1
       THEN /\ calls' = <<>>
            /\ totalColor' = AddI(totalColor, Deref(ptr, sc))
            /\ sampleNo' = sampleNo + 1
       ELSE /\ calls' = [SubSeq(calls, 1, Len(calls) - 1) EXCEPT
                            ![Len(calls) - 1] = Resume(@, ptr)]
            /\ UNCHANGED <<totalColor, sampleNo>>
    /\ EvalStateBecomes(es)
    /\ UNCHANGED <<given, renderPc, recursionLimit, pixelX, pixelY, img, lvars, svars, gvars, qvars>>

\* a return from a step that evaluated no surface function
Return(ptr, sc) == ReturnAfter(ptr, sc, EvalStateNow)

\* the running activation moves on within traceRay, the EvalState being es
\* from then on
GotoAfter(frame, es) ==
    /\ calls' = [calls EXCEPT ![Len(calls)] = frame]
    /\ EvalStateBecomes(es)
    /\ UNCHANGED <<given, scene, renderPc, recursionLimit, pixelX, pixelY,
                   sampleNo, totalColor, img, result, lvars, svars, gvars, qvars>>

\* a move within traceRay that evaluated no surface function
Goto(frame) == GotoAfter(frame, EvalStateNow)

\* the running activation calls traceRay(scene, ray, depth)
Recurse(frame, ray, depth) ==
    /\ calls' = Append([calls EXCEPT ![Len(calls)] = frame], Call(ray, depth))
    /\ UNCHANGED <<given, scene, renderPc, recursionLimit, pixelX, pixelY,
                   sampleNo, totalColor, img, result, vars, lvars, svars, gvars, qvars>>

\* if depth <= 0 { return &Vec3{} }
TraceDepthLimit ==
    /\ AtPc("enter")
    /\ active.depth <= 0
    /\ Return(Fresh(ZeroVec), scene)

\* hit := closestHit(scene, ray), with depth left
TraceClosestHit ==
    /\ AtPc("enter")
    /\ active.depth > 0
    /\ \E nearest \in { closestHit(scene, active.ray, EvalStateNow) } :
          GotoAfter([active EXCEPT !.hit = nearest.hit, !.pc = "hit"], nearest.es)

\* t := 0.5 * (ray.Direction.Y + 1.0)
Gradient(ray) == RMul(Rat(1, 2), RAdd(ray.Direction.Y, One))

\* hit == nil: scene.BgColorStart.LerpI(&scene.BgColorEnd, t) moves
\* scene.BgColorStart and returns its address
TraceMiss ==
    /\ AtPc("hit")
    /\ IsNoHit(active.hit)
    /\ Return(BgColorStartPtr,
              [scene EXCEPT !.BgColorStart =
                   LerpI(@, scene.BgColorEnd, Gradient(active.ray))])

IsOpaque(mat) == mat.Reflectivity = Zero /\ mat.Transparency = Zero

\* a hit on a material without reflectivity and transparency
TraceOpaque ==
    /\ AtPc("hit")
    /\ ~IsNoHit(active.hit)
    /\ IsOpaque(active.hit.Material)
    /\ \E lit \in { computeLighting(active.hit, scene, active.ray, EvalStateNow) } :
          ReturnAfter(Fresh(ClampI(lit.color)), scene, lit.es)

\* a hit on any other material: the surface colour, then the two rays
TraceShade ==
    /\ AtPc("hit")
    /\ ~IsNoHit(active.hit)
    /\ ~IsOpaque(active.hit.Material)
    /\ \E lit \in { computeLighting(active.hit, scene, active.ray, EvalStateNow) } :
          GotoAfter([active EXCEPT !.surfaceColor = lit.color, !.pc = "reflect"],
                    lit.es)

\* math.Cos and math.Sin at 0, the one Fuzziness of the materials here
Cos(a) == IF a = Zero THEN One ELSE CHOOSE r \in {} : TRUE
Sin(a) == IF a = Zero THEN Zero ELSE CHOOSE r \in {} : TRUE

\* the reflection ray of traceRay from its Origin on
reflectionFrom(hit, fuzz, reflectedDir, randomVector) ==
    Ray(Add(hit.Point, Scale(hit.Normal, epsilon)),
        Normalize(Add(reflectedDir, Scale(randomVector, fuzz))))

\* the reflection ray of traceRay
reflectionRay(ray, hit) ==
    reflectionFrom(hit, hit.Material.Fuzziness,
        Sub(ray.Direction,
            Scale(hit.Normal, RMul(FromInt(2), Dot(ray.Direction, hit.Normal)))),
        Vec3(RMul(Cos(hit.Material.Fuzziness), Cos(hit.Material.Fuzziness)),
             RMul(Sin(hit.Material.Fuzziness), Sin(hit.Material.Fuzziness)), Zero))

\* a reflection traced with the depth of the caller
TraceReflectSameDepth ==
    /\ AtPc("reflect")
    /\ RLess(Zero, active.hit.Material.Reflectivity)
    /\ Recurse([active EXCEPT !.pc = "reflecting"],
               reflectionRay(active.ray, active.hit), active.depth)

\* mat.Reflectivity > 0: reflectedColor = traceRay(scene, &reflectionRay, depth-1)
TraceReflect ==
    /\ AtPc("reflect")
    /\ RLess(Zero, active.hit.Material.Reflectivity)
    /\ Recurse([active EXCEPT !.pc = "reflecting"],
               reflectionRay(active.ray, active.hit), active.depth - 1)

\* otherwise reflectedColor stays &Vec3{}
TraceNoReflect ==
    /\ AtPc("reflect")
    /\ ~RLess(Zero, active.hit.Material.Reflectivity)
    /\ Goto([active EXCEPT !.pc = "refract"])

\* the normal of the refraction: inverted when the ray is inside the object
refractionNormal(ray, hit) ==
    IF RLess(Zero, Dot(ray.Direction, hit.Normal))
    THEN Scale(hit.Normal, FromInt(-1))
    ELSE hit.Normal

\* refractedDir: the indices are swapped when the ray is inside the object
refractedDir(ray, hit) ==
    IF RLess(Zero, Dot(ray.Direction, hit.Normal))
    THEN refract(ray.Direction, Scale(hit.Normal, FromInt(-1)),
                 hit.Material.RefractiveIndex, One)
    ELSE refract(ray.Direction, hit.Normal, One, hit.Material.RefractiveIndex)

\* a refracted ray is traced towards whatever refract returned
RefractsWhenTransparent ==
    /\ AtPc("refract")
    /\ RLess(Zero, active.hit.Material.Transparency)

\* the running activation is about to trace a refracted ray
Refracts ==
    /\ AtPc("refract")
    /\ RLess(Zero, active.hit.Material.Transparency)
    /\ ~refractedDir(active.ray, active.hit).nil

\* mat.Transparency > 0 and refractedDir != nil:
\* refractedColor = traceRay(scene, &refractedRay, depth-1)
TraceRefract ==
    /\ Refracts
    /\ Recurse([active EXCEPT !.pc = "refracting"],
               Ray(Sub(active.hit.Point,
                       Scale(refractionNormal(active.ray, active.hit), epsilon)),
                   refractedDir(active.ray, active.hit).vec),
               active.depth - 1)

\* otherwise refractedColor stays &Vec3{}
TraceNoRefract ==
    /\ AtPc("refract")
    /\ ~Refracts
    /\ Goto([active EXCEPT !.pc = "blend"])

\* the value of the return statement that ends traceRay
Blend(surfaceColor, reflectedColor, refractedColor, transparency, kr) ==
    ClampI(AddI(Scale(surfaceColor, RSub(One, transparency)),
                AddI(Scale(reflectedColor, kr),
                     Scale(refractedColor, RSub(One, kr)))))

\* the last two statements of traceRay: kr and the blend of the three colours
TraceBlend ==
    /\ AtPc("blend")
    /\ \E kr \in { fresnel(active.hit.Normal, active.ray.Direction,
                            active.hit.Material.RefractiveIndex) } :
          Return(Fresh(Blend(active.surfaceColor,
                             Deref(active.reflectedColor, scene),
                             Deref(active.refractedColor, scene),
                             active.hit.Material.Transparency, kr)),
                 scene)

RenderNext ==
    \/ RenderStart
    \/ RenderSample
    \/ RenderSetPixel
    \/ RenderReturn
    \/ TraceDepthLimit
    \/ TraceClosestHit
    \/ TraceMiss
    \/ TraceOpaque
    \/ TraceShade
    \/ TraceReflect
    \/ TraceNoReflect
    \/ TraceRefract
    \/ TraceNoRefract
    \/ TraceBlend

RenderSpec == RenderInit /\ [][RenderNext]_<<rvars, vars, lvars, svars, gvars, qvars>>

RenderDone == renderPc = "done"

\* Render runs on one goroutine, which the runtime keeps running until Render
\* returns: weak fairness of RenderNext, whose enabling condition is
\* ~RenderDone
RenderFairSpec ==
    RenderSpec /\ ([]<>RenderDone \/ []<><<RenderNext>>_<<rvars, vars, lvars, svars, gvars, qvars>>)

\* ------------------------------------------------- claims on the renderer
\* C17: Render and traceRay never modify the Scene: after any number of
\* traced rays every field of the Scene, the two background colours and the
\* field of view among them, has the value it had when Render was called.
C17_SceneReadOnly == scene = given

\* the running activation found no object on its ray and is about to return
Misses == AtPc("hit") /\ IsNoHit(active.hit)

\* C18: for a ray that hits no object traceRay returns the interpolation
\* between the two configured background colours at t = 0.5*(direction.y + 1),
\* whatever rays were traced before: two misses with the same direction
\* return the same colour.
C18_BackgroundGradient ==
    [][ Misses /\ calls' # calls =>
          Deref(result', scene') =
             LerpI(given.BgColorStart, given.BgColorEnd, Gradient(active.ray))
      ]_<<rvars, vars, lvars, svars, gvars, qvars>>

\* the activations of traceRay that perform shading
Shading == { k \in DOMAIN calls : calls[k].pc # "enter" }

\* the depths of the nested activations count down from the depth of the
\* primary ray, and an activation without depth left has intersected nothing
C19_Nesting ==
    /\ \A k \in DOMAIN calls :
          /\ calls[k].depth = recursionLimit - (k - 1)
          /\ calls[k].depth >= 0
          /\ calls[k].depth <= 0 => calls[k].pc = "enter" /\ IsNoHit(calls[k].hit)
    /\ Cardinality(Shading) <= recursionLimit

\* a call without depth left returns black to its caller and does nothing
\* else; a recursive call is made with the depth of its caller less one
C19_Step ==
    /\ AtPc("enter") /\ active.depth <= 0 /\ calls' # calls =>
          /\ result' = Fresh(ZeroVec)
          /\ Len(calls') = Len(calls) - 1
          /\ scene' = scene
    /\ Len(calls') = Len(calls) + 1 /\ calls # <<>> =>
          calls'[Len(calls')].depth = active.depth - 1

\* C19: traceRay always terminates: a call with depth <= 0 returns black
\* without intersecting anything, every recursive call is made with depth-1,
\* and a primary ray traced with depth d never nests more than d levels of
\* traceRay that perform shading.
C19_TraceRayTerminates ==
    /\ []C19_Nesting
    /\ [][C19_Step]_<<rvars, vars, lvars, svars, gvars, qvars>>
    /\ (calls # <<>>) ~> (calls = <<>>)

\* as many activations shade as the depth allows, and one more call has
\* arrived without depth left
C19_Witness ==
    /\ recursionLimit = MaxRecursionDepth
    /\ Len(calls) = recursionLimit + 1
    /\ Cardinality(Shading) = recursionLimit
    /\ active.depth = 0

\* the primary ray is about to return the blend for a hit on a reflective or
\* transparent material
PrimaryBlend == AtPc("blend") /\ Len(calls) = 1

\* the hit shaded alone: the ambient and direct-light term, clamped
SurfaceOnly(frame) == ClampI(frame.surfaceColor)

\* C20 as stated: rendering a scene whose recursion depth is 0 returns, for a
\* primary ray that hits a reflective or transparent material, exactly the
\* ambient plus direct-light term of that hit, with no reflected or
\* refracted contribution added.
C20_DepthZeroSurfaceOnly ==
    [][ PrimaryBlend /\ given.RecursionDepth = 0 /\ calls' # calls =>
          Deref(result', scene') = SurfaceOnly(active)
      ]_<<rvars, vars, lvars, svars, gvars, qvars>>

\* the blend of a hit whose reflected and refracted colours are black
NoContribution(frame) ==
    ClampI(Scale(frame.surfaceColor, RSub(One, frame.hit.Material.Transparency)))

C20_Limit ==
    /\ renderPc # "start" =>
          recursionLimit = IF given.RecursionDepth <= 0 THEN 3
                           ELSE given.RecursionDepth
    /\ calls # <<>> => calls[1].depth = recursionLimit /\ calls[1].depth >= 1

\* the reflected or refracted ray of the primary hit is about to be traced
SecondaryCall == Len(calls) = 2 /\ AtPc("enter")

C20_Step ==
    /\ PrimaryBlend /\ calls' # calls =>
          /\ active.surfaceColor =
                computeLighting(active.hit, scene, active.ray, EvalStateNow).color
          /\ given.RecursionDepth = 1 =>
                /\ Deref(active.reflectedColor, scene) = ZeroVec
                /\ Deref(active.refractedColor, scene) = ZeroVec
                /\ Deref(result', scene') = NoContribution(active)
    /\ SecondaryCall =>
          active.depth = (IF given.RecursionDepth <= 0 THEN 3
                          ELSE given.RecursionDepth) - 1

\* C20, amended: a recursion depth of 0 (or less) stands for the default
\* limit 3, so the primary ray is traced with depth 3 and the reflected and
\* refracted rays of its hit with depth 2; the primary ray always has depth
\* >= 1 and the colour of its hit is the ambient plus direct-light term;
\* with recursion depth 1 the reflected and refracted rays are traced with
\* depth 0, the reflected and the refracted colour are black, and the
\* result is the ambient plus direct-light term scaled by
\* (1 - transparency), clamped.
C20_DepthZeroIsDefault ==
    /\ []C20_Limit
    /\ [][C20_Step]_<<rvars, vars, lvars, svars, gvars, qvars>>

\* a scene of recursion depth 0: the primary ray has hit the mirror and its
\* reflected ray has brought back a colour that is not black
C20_Witness ==
    /\ given.RecursionDepth = 0
    /\ PrimaryBlend
    /\ active.depth = 3
    /\ Deref(active.reflectedColor, scene) # ZeroVec
    /\ Blend(active.surfaceColor, Deref(active.reflectedColor, scene),
             Deref(active.refractedColor, scene),
             active.hit.Material.Transparency,
             fresnel(active.hit.Normal, active.ray.Direction,
                     active.hit.Material.RefractiveIndex))
          # SurfaceOnly(active)

\* a scene of recursion depth 0: the reflected ray of the primary hit is
\* about to be traced with depth 2
C20_SecondaryTraced ==
    /\ given.RecursionDepth = 0
    /\ SecondaryCall
    /\ active.depth = 2

\* a scene of recursion depth 1: the primary ray has hit the mirror, its
\* reflected ray has brought back black, and the surface colour is not black
C20_DepthOne ==
    /\ given.RecursionDepth = 1
    /\ PrimaryBlend
    /\ active.hit.Material.Reflectivity # Zero
    /\ Deref(active.reflectedColor, scene) = ZeroVec
    /\ NoContribution(active) # ZeroVec

\* ------------------------------------------------- the terms of the shading
\* the ambient term of a hit
AmbientTerm(hit, sc) ==
    Scale(Mul(hit.Material.Color, sc.AmbientLight), hit.Material.Kd)

\* the unit vector from the hit to the light
TowardsLight(hit, light) == Normalize(Sub(light.Position, hit.Point))

\* the diffuse term of a light on a hit
DiffuseTerm(hit, light) ==
    Scale(Mul(hit.Material.Color, light.Color),
          RMul(RMax(Zero, Dot(hit.Normal, TowardsLight(hit, light))),
               hit.Material.Kd))

\* the cosine between the normal of the hit and the half vector of the view
\* direction v and the direction to the light
HalfCosine(hit, light, v) ==
    With(Normalize(Add(v, TowardsLight(hit, light))),
         LAMBDA half : RMax(Zero, Dot(hit.Normal, half)))

\* the specular term of a light on a hit seen along ray
SpecularTerm(hit, light, ray) ==
    With(HalfCosine(hit, light, Neg(ray.Direction)),
         LAMBDA c : Scale(light.Color,
                          RMul(hit.Material.Ks,
                               RPow(c, Whole(hit.Material.SpecularExponent)))))

\* the ray from just above the hit towards the light
ShadowRay(hit, light) ==
    Ray(Add(hit.Point, Scale(hit.Normal, epsilon)), TowardsLight(hit, light))

\* the EvalState when a loop over the objects of the scene comes to object
\* i, having begun on es: every object before it, but the one passed over,
\* was asked for its hit on the ray
RECURSIVE AtObject(_, _, _, _, _)
AtObject(i, passed, sc, ray, es) ==
    IF i = 1 THEN es
    ELSE With(AtObject(i - 1, passed, sc, ray, es),
              LAMBDA before :
                 IF sc.Objects[i - 1].Ptr = passed THEN before
                 ELSE Intersect(sc.Objects[i - 1], ray, before).es)

\* the EvalState when the loop of computeLighting comes to light k, having
\* begun on es
RECURSIVE AtLight(_, _, _, _, _)
AtLight(k, hit, sc, ray, es) ==
    IF k = 1 THEN es
    ELSE With(AtLight(k - 1, hit, sc, ray, es),
              LAMBDA before : LightTerm(sc.Lights[k - 1], hit, sc, ray, before).es)

\* the object, asked on the EvalState es, reports a hit on the ray nearer
\* than dist
HitsWithin(obj, ray, dist, es) ==
    \E h \in { Intersect(obj, ray, es).hit } : ~IsNoHit(h) /\ RLess(h.T, dist)

\* some object other than the struck one, asked in its turn, reports a hit
\* on the shadow ray nearer than the light; es is the EvalState when the
\* first of them is asked
OccludedAt(hit, sc, light, es) ==
    \E shadowRay \in { ShadowRay(hit, light) },
       dist \in { Length(Sub(light.Position, hit.Point)) } :
       \E i \in DOMAIN sc.Objects :
          /\ sc.Objects[i].Ptr # hit.Object
          /\ HitsWithin(sc.Objects[i], shadowRay, dist,
                        AtObject(i, hit.Object, sc, shadowRay, es))

\* the lights of the scene that are occluded at the hit, each asked in its
\* turn; es is the EvalState when the first of them is asked
OccludedLights(hit, sc, ray, es) ==
    { l \in DOMAIN sc.Lights :
         OccludedAt(hit, sc, sc.Lights[l], AtLight(l, hit, sc, ray, es)) }

\* the sum of diffuse and specular term over the lights from light k on
\* that are not among the occluded ones
RECURSIVE DirectLight(_, _, _, _, _)
DirectLight(k, occluded, hit, sc, ray) ==
    IF k > Len(sc.Lights) THEN ZeroVec
    ELSE With(IF k \in occluded THEN ZeroVec
              ELSE Add(DiffuseTerm(hit, sc.Lights[k]),
                       SpecularTerm(hit, sc.Lights[k], ray)),
              LAMBDA term : Add(term, DirectLight(k + 1, occluded, hit, sc, ray)))

\* ambient plus, for each light that is not occluded, diffuse plus specular
LitShade(hit, sc, ray, es) ==
    Add(AmbientTerm(hit, sc),
        DirectLight(1, OccludedLights(hit, sc, ray, es), hit, sc, ray))

\* the running activation has hit an opaque material
OpaqueHit ==
    /\ AtPc("hit")
    /\ ~IsNoHit(active.hit)
    /\ active.hit.Material.Reflectivity = Zero
    /\ active.hit.Material.Transparency = Zero

\* C21: for a hit on an opaque material (reflectivity 0 and transparency 0)
\* traceRay makes no recursive call: it returns, clamped, the sum of the
\* ambient term and, for each light that is not shadowed, its diffuse and
\* specular terms.
C21_OpaqueIsLocal ==
    [][ OpaqueHit /\ calls' # calls =>
          /\ Len(calls') = Len(calls) - 1
          /\ \A k \in DOMAIN calls' : calls'[k].ray = calls[k].ray
          /\ \E shade \in { LitShade(active.hit, scene, active.ray, EvalStateNow) } :
                result' = Fresh(ClampI(shade))
      ]_<<rvars, vars, lvars, svars, gvars, qvars>>

\* result is the clamped shade of the opaque hit of ray, to which a light
\* has added
ShadedOpaque(ray, hit) ==
    /\ ~IsNoHit(hit)
    /\ IsOpaque(hit.Material)
    /\ \E shade \in { LitShade(hit, scene, ray, EvalStateNow) } :
          /\ result = Fresh(ClampI(shade))
          /\ shade # AmbientTerm(hit, scene)

\* a primary ray has returned from an opaque hit in the light
C21_Witness ==
    /\ renderPc = "loop"
    /\ calls = <<>>
    /\ sampleNo >= 1
    /\ pixelX < scene.WidthPx
    /\ \E r \in Randoms(pixelX, pixelY) :
          \E ray \in { CameraRay(scene, pixelX, pixelY, r[1], r[2]) } :
             \E hit \in { closestHit(scene, ray, EvalStateNow).hit } :
                ShadedOpaque(ray, hit)

\* ------------------------------------------- reflection and refraction
\* the squared sine of the angle of the transmitted ray, by Snell's law: the
\* ray passes from air into the material, or back when it leaves the object
SinT2(ray, hit) ==
    With(Dot(ray.Direction, hit.Normal),
         LAMBDA c :
            RMul(square(IF RLess(Zero, c) THEN hit.Material.RefractiveIndex
                        ELSE RDiv(One, hit.Material.RefractiveIndex)),
                 RSub(One, square(c))))

\* the activation has hit a transparent material under total internal reflection
TotalInternal(frame) ==
    /\ RLess(Zero, frame.hit.Material.Transparency)
    /\ RLess(One, SinT2(frame.ray, frame.hit))

\* the activation has hit a transparent material that lets the ray through
Transmits(frame) ==
    /\ RLess(Zero, frame.hit.Material.Transparency)
    /\ ~RLess(One, SinT2(frame.ray, frame.hit))

\* the step calls traceRay
Calls == Len(calls') = Len(calls) + 1

\* the direction of ray mirrored at the surface of normal n
Mirrored(d, n) == Normalize(Sub(d, Scale(n, RMul(FromInt(2), Dot(d, n)))))

\* the reflected ray is traced exactly for a positive reflectivity, the
\* refracted ray exactly for a transmitting hit, and no other ray is traced
C22_Step ==
    /\ AtPc("reflect") /\ calls' # calls =>
          /\ Calls <=> RLess(Zero, active.hit.Material.Reflectivity)
          /\ Calls => calls'[Len(calls')].ray.Direction =
                         Mirrored(active.ray.Direction, active.hit.Normal)
          /\ ~Calls => /\ calls'[Len(calls')].pc = "refract"
                       /\ calls'[Len(calls')].reflectedColor = Fresh(ZeroVec)
    /\ AtPc("refract") /\ calls' # calls =>
          /\ Calls <=> Transmits(active)
          /\ ~Calls => /\ calls'[Len(calls')].pc = "blend"
                       /\ calls'[Len(calls')].refractedColor = Fresh(ZeroVec)
    /\ calls # <<>> /\ Calls => AtPc("reflect") \/ AtPc("refract")

\* under total internal reflection the refracted colour that is blended is
\* black
C22_Black ==
    \A k \in DOMAIN calls :
       calls[k].pc = "blend" /\ TotalInternal(calls[k]) =>
          calls[k].refractedColor = Fresh(ZeroVec)

\* C22: a reflected ray is traced if and only if the reflectivity is
\* positive; a refracted ray is traced if and only if the transparency is
\* positive and the refraction is not a total internal reflection
\* (sin^2 T <= 1); under total internal reflection the refracted term is
\* black.
C22_ReflectRefract ==
    /\ []C22_Black
    /\ [][C22_Step]_<<rvars, vars, lvars, svars, gvars, qvars>>

\* a hit under total internal reflection is about to be blended, and its
\* reflected ray has brought back a colour
C22_Witness ==
    /\ AtPc("blend")
    /\ TotalInternal(active)
    /\ RLess(Zero, active.hit.Material.Reflectivity)
    /\ Deref(active.reflectedColor, scene) # ZeroVec
    /\ active.refractedColor = Fresh(ZeroVec)

\* ------------------------------------------------------- the nearest hit
\* what each object of the scene reports on the ray when closestHit asks
\* them in their order, the EvalState being es when the first is asked
Reports(sc, ray, es) ==
    [i \in DOMAIN sc.Objects |->
        Intersect(sc.Objects[i], ray, AtObject(i, 0, sc, ray, es)).hit]

\* object i reports a hit that no object beats: none is nearer, and none
\* that is as near comes earlier in the list
Wins(hits, i) ==
    /\ ~IsNoHit(hits[i])
    /\ \A j \in DOMAIN hits :
          ~IsNoHit(hits[j]) =>
             \/ RLess(hits[i].T, hits[j].T)
             \/ hits[i].T = hits[j].T /\ i <= j

\* hit is the answer to the reports: nil when no object reports a hit, and
\* otherwise the report that wins
Answers(hit, hits) ==
    IF \A i \in DOMAIN hits : IsNoHit(hits[i])
    THEN IsNoHit(hit)
    ELSE \E i \in DOMAIN hits : Wins(hits, i) /\ hit = hits[i]

\* the step of an activation of traceRay that calls closestHit
CallsClosestHit == AtPc("enter") /\ active.depth > 0 /\ calls' # calls

\* C23: closestHit returns a hit with the minimum t among the objects that
\* report a hit, the earlier object of the list when two are equally near,
\* and no hit exactly when no object reports one.
C23_ClosestHit ==
    [][ CallsClosestHit =>
           \E hits \in { Reports(scene, active.ray, EvalStateNow) } :
              Answers(calls'[Len(calls')].hit, hits)
      ]_<<rvars, vars, lvars, svars, gvars, qvars>>

\* two objects report a hit on the ray of the running activation, and the
\* nearer one comes later in the list
C23_Witness ==
    /\ AtPc("hit")
    /\ \E hits \in { Reports(scene, active.ray, EvalStateNow) } :
          \E i, j \in DOMAIN hits :
             /\ i < j
             /\ ~IsNoHit(hits[i])
             /\ ~IsNoHit(hits[j])
             /\ RLess(hits[j].T, hits[i].T)
             /\ active.hit = hits[j]

\* two objects report equally near hits on the ray of the running activation
C23_Tie ==
    /\ AtPc("hit")
    /\ \E hits \in { Reports(scene, active.ray, EvalStateNow) } :
          \E i, j \in DOMAIN hits :
             /\ i < j
             /\ ~IsNoHit(hits[i])
             /\ ~IsNoHit(hits[j])
             /\ hits[i].T = hits[j].T
             /\ active.hit = hits[i]

\* --------------------------------------------------------------- shadows
\* the activations of traceRay that have computed their surface colour
Shaded == { k \in DOMAIN calls : calls[k].pc \notin {"enter", "hit"} }

\* C24: a light is occluded at a hit if and only if some object other than
\* the struck one reports a hit on the shadow ray nearer than the light; the
\* struck object never shadows itself; an occluded light adds neither its
\* diffuse nor its specular term, and the ambient term is always added.
C24_Shadows ==
    [][ AtPc("hit") /\ ~IsNoHit(active.hit) /\ calls' # calls =>
           \E occluded \in { OccludedLights(active.hit, scene, active.ray,
                                            EvalStateNow) } :
              \E shade \in { Add(AmbientTerm(active.hit, scene),
                                 DirectLight(1, occluded, active.hit, scene,
                                             active.ray)) } :
                 IF IsOpaque(active.hit.Material)
                 THEN result' = Fresh(ClampI(shade))
                 ELSE calls'[Len(calls')].surfaceColor = shade
      ]_<<rvars, vars, lvars, svars, gvars, qvars>>

\* the surface colour of a hit whose only light is occluded is the ambient
\* term
C24_Witness ==
    /\ AtPc("reflect")
    /\ Len(scene.Lights) = 1
    /\ OccludedAt(active.hit, scene, scene.Lights[1], EvalStateNow)
    /\ active.surfaceColor = AmbientTerm(active.hit, scene)
    /\ active.surfaceColor # ZeroVec

\* ---------------------------------------------------------------- pixels
\* the pixels of the picture
Pixels == (0..(given.WidthPx - 1)) \X (0..(given.HeightPx - 1))

\* the pixels that come before (x, y) in the order of the loops of Render
Before(p, x, y) == p[1] < x \/ (p[1] = x /\ p[2] < y)

\* the pixels before the current one are written once and no other is
\* written; the sum starts from black with the first sample of a pixel
C27_Written ==
    renderPc # "start" =>
       /\ DOMAIN img = Pixels
       /\ \A p \in Pixels :
             Len(img[p]) = IF Before(p, pixelX, pixelY) THEN 1 ELSE 0
       /\ sampleNo \in 0..4
       /\ sampleNo = 0 /\ calls = <<>> => totalColor = ZeroVec
       /\ renderPc = "done" => \A p \in Pixels : Len(img[p]) = 1

\* the step returns the colour of a primary ray to Render
PrimaryReturn == Len(calls) = 1 /\ calls' = <<>>

\* a primary ray is traced for a pixel with fewer than four samples; its
\* colour is added to the sum of the pixel; a pixel is written after four
\* samples with a quarter of their sum, and the write changes nothing else
\* of the picture
C27_Step ==
    /\ calls = <<>> /\ calls' # <<>> =>
          /\ sampleNo < 4
          /\ Len(img[<<pixelX, pixelY>>]) = 0
    /\ PrimaryReturn =>
          /\ sampleNo' = sampleNo + 1
          /\ totalColor' = Add(totalColor, Deref(result', scene'))
          /\ img' = img
    /\ ~PrimaryReturn /\ renderPc = "loop" /\ img' = img =>
          totalColor' = totalColor /\ sampleNo' = sampleNo
    /\ renderPc = "loop" /\ img' # img =>
          /\ sampleNo = 4
          /\ img'[<<pixelX, pixelY>>] = <<Scale(totalColor, Rat(1, 4))>>
          /\ \A p \in Pixels : p # <<pixelX, pixelY>> => img'[p] = img[p]
          /\ <<pixelX', pixelY'>> # <<pixelX, pixelY>>

\* C27: Render writes every pixel (x, y) with 0 <= x < width and
\* 0 <= y < height of the output buffer exactly once, each after tracing
\* exactly four primary rays for that pixel whose colours are averaged; no
\* pixel's value depends on a write to another pixel.
C27_EveryPixelOnce ==
    /\ []C27_Written
    /\ [][C27_Step]_<<rvars, vars, lvars, svars, gvars, qvars>>

\* Render has returned a picture whose pixels are not all of one colour
C27_Witness ==
    /\ renderPc = "done"
    /\ \A p \in Pixels : Len(img[p]) = 1
    /\ \E p, q \in Pixels : img[p] # img[q]

\* =========================================================================
\* The lexer and the parser of the scene language (lexer.go, parser.go).
\* The Lexer reads its input byte by byte; NextToken's loops (skipWhitespace,
\* skipComment, readIdentifier, readString) advance one iteration per step.
\* The Parser's recursion (parseTokenList -> parseFunction -> parseTokenList)
\* is kept as the stack `open` of token lists under construction.
\* =========================================================================
MaxInput == 4   \* length of the inputs handed to the lexer

Quote == "\""
Backslash == "\\"
Newline == "\n"
Tab == "\t"
\* the byte 0, which readChar reports at the end of the input
Nul == "NUL"

\* The bytes the inputs are made of: the string delimiters, the letters n
\* and t (escapes when they follow a backslash) and q (no escape), a pair of
\* braces, the comment sign and the newline (whitespace, end of a comment).
Bytes == {Quote, Backslash, "n", "t", "q", "{", "}", "%", Newline}

\* the bytes of the inputs with arrays: both pairs of brackets and a letter
ArrayBytes == {"{", "}", "[", "]", "n"}

\* the bytes of the inputs with numbers and binders: the slash, the sign, a
\* digit, the point, the letter e (an exponent inside a number) and the
\* newline
NumberBytes == {"/", "-", "1", ".", "e", Newline}

\* the bytes of the inputs with booleans: the letters of true, and the
\* newline
BooleanBytes == {"t", "r", "u", "e", Newline}

Strings(bytes) == UNION { [1..n -> bytes] : n \in 0..MaxInput }

\* numbers at and beyond the ends of the float64 range: 1e999, -1e999 and
\* 9e308 beyond the largest, 1e308 within, 1e-999 nearer to zero than to any
\* other float64
RangeInputs ==
    { <<"1", "e", "9", "9", "9">>, <<"-", "1", "e", "9", "9", "9">>,
      <<"9", "e", "3", "0", "8">>, <<"1", "e", "3", "0", "8">>,
      <<"1", "e", "-", "9", "9", "9">> }

Inputs == Strings(Bytes)

\* The inputs of each caller.  All get the inputs with strings, comments and
\* braces and those with numbers and binders; Parse gets those with arrays,
\* those with booleans and the numbers at the ends of the float64 range as
\* well.
InputsOf ==
    [d \in {"Parse", "readAllTokens", "NextTokenAgain"} |->
        IF d = "Parse"
        THEN Strings(Bytes) \cup Strings(ArrayBytes) \cup Strings(NumberBytes)
                \cup Strings(BooleanBytes) \cup RangeInputs
        ELSE Strings(Bytes) \cup Strings(NumberBytes)]

isLetter(c) ==
    c \in {"a", "b", "c", "d", "e", "f", "g", "h", "i", "j", "k", "l", "m",
           "n", "o", "p", "q", "r", "s", "t", "u", "v", "w", "x", "y", "z",
           "A", "B", "C", "D", "E", "F", "G", "H", "I", "J", "K", "L", "M",
           "N", "O", "P", "Q", "R", "S", "T", "U", "V", "W", "X", "Y", "Z"}

isDigit(c) == c \in {"0", "1", "2", "3", "4", "5", "6", "7", "8", "9"}

\* what readChar puts in l.ch when l.readPos is p
ByteAt(p) == IF p >= Len(input) THEN Nul ELSE input[p + 1]

\* peekChar
peekChar == ByteAt(readPos)

\* n calls of readChar in a row
readChars(n) ==
    /\ ch' = ByteAt(readPos + n - 1)
    /\ lexPos' = readPos + n - 1
    /\ readPos' = readPos + n

readChar == readChars(1)

\* no program is being evaluated
EvalIdle ==
    /\ program = <<>>
    /\ renderSet = FALSE
    /\ Stack = <<>>
    /\ Env = 1
    /\ maps = <<EmptyEnv>>
    /\ CurrToken = NoToken
    /\ frames = <<>>
    /\ err = "none"
    /\ rendered = <<>>

\* NewLexer(input) has returned, NewParser wrapped it or readAllTokens is
\* about to call NextToken
LexInit ==
    /\ driver \in DOMAIN InputsOf
    /\ input \in InputsOf[driver]
    /\ ch = ByteAt(0)
    /\ lexPos = 0
    /\ readPos = 1
    /\ lexPc = IF driver = "Parse" THEN "idle" ELSE "NextToken"
    /\ from = 0
    /\ sb = <<>>
    /\ strErr = FALSE
    /\ lexed = <<>>
    /\ curr = ZeroToken
    /\ open = <<>>
    /\ parsed = <<>>
    /\ EvalIdle
    /\ RenderIdle
    /\ ShaderIdle
    /\ GmlIdle
    /\ SsimIdle

\* NextToken returns tk, read from input[f:t], to its caller: Parse's
\* readAndAdvanceToken stores it in p.curr, readAllTokens appends it and
\* calls NextToken again unless it is the EOF token; the third caller goes
\* on until it has got the EOF token twice
ReturnToken(tk, f, t) ==
    /\ lexed' = Append(lexed, [Type |-> tk.Type, Literal |-> tk.Literal,
                               from |-> f, to |-> t])
    /\ IF driver = "Parse"
       THEN curr' = tk /\ lexPc' = "idle"
       ELSE /\ curr' = curr
            /\ lexPc' = IF /\ tk.Type = "EOF"
                            /\ \/ driver = "readAllTokens"
                               \/ lexed # <<>> /\ lexed[Len(lexed)].Type = "EOF"
                         THEN "done" ELSE "NextToken"
    /\ UNCHANGED <<input, driver, open, parsed, vars, rvars, svars, gvars, qvars>>

\* one iteration of skipWhitespace's loop
skipWhitespace ==
    /\ lexPc = "NextToken"
    /\ ch \in {" ", Tab, Newline, "\r"}
    /\ readChar
    /\ UNCHANGED <<input, lexPc, from, sb, strErr, lexed, driver, curr, open,
                   parsed, vars, rvars, svars, gvars, qvars>>

SingleByte ==
    [c \in {"{", "}", "[", "]"} |->
        CASE c = "{" -> "LCurly" [] c = "}" -> "RCurly"
          [] c = "[" -> "LBracket" [] c = "]" -> "RBracket"]

\* newToken for a brace or a bracket
newToken ==
    /\ lexPc = "NextToken"
    /\ ch \in DOMAIN SingleByte
    /\ readChar
    /\ ReturnToken(LexerToken(SingleByte[ch], <<ch>>), lexPos, readPos)
    /\ UNCHANGED <<from, sb, strErr>>

\* the default case for a byte that starts nothing: newToken(TokenIllegal)
newTokenIllegal ==
    /\ lexPc = "NextToken"
    /\ ch \notin {" ", Tab, Newline, "\r", "{", "}", "[", "]", "/", Quote, "%", Nul}
    /\ ~isLetter(ch) /\ ~isDigit(ch) /\ ch # "-"
    /\ readChar
    /\ ReturnToken(LexerToken("Illegal", <<ch>>), lexPos, readPos)
    /\ UNCHANGED <<from, sb, strErr>>

\* case 0
EndOfInput ==
    /\ lexPc = "NextToken"
    /\ ch = Nul
    /\ ReturnToken(LexerToken("EOF", <<>>), lexPos, lexPos)
    /\ UNCHANGED <<lexPos, readPos, ch, from, sb, strErr>>

\* case '%': skipComment is entered
CommentStart ==
    /\ lexPc = "NextToken"
    /\ ch = "%"
    /\ lexPc' = "skipComment"
    /\ UNCHANGED <<input, lexPos, readPos, ch, from, sb, strErr, lexed, driver,
                   curr, open, parsed, vars, rvars, svars, gvars, qvars>>

\* one iteration of skipComment's loop
skipComment ==
    /\ lexPc = "skipComment"
    /\ ch # Newline /\ ch # Nul
    /\ readChar
    /\ UNCHANGED <<input, lexPc, from, sb, strErr, lexed, driver, curr, open,
                   parsed, vars, rvars, svars, gvars, qvars>>

\* skipComment returns and NextToken calls itself
CommentEnd ==
    /\ lexPc = "skipComment"
    /\ ch = Newline \/ ch = Nul
    /\ lexPc' = "NextToken"
    /\ UNCHANGED <<input, lexPos, readPos, ch, from, sb, strErr, lexed, driver,
                   curr, open, parsed, vars, rvars, svars, gvars, qvars>>

\* the default case for a letter: readIdentifier is entered, pos := l.pos
IdentifierStart ==
    /\ lexPc = "NextToken"
    /\ isLetter(ch)
    /\ lexPc' = "readIdentifier"
    /\ from' = lexPos
    /\ UNCHANGED <<input, lexPos, readPos, ch, sb, strErr, lexed, driver, curr,
                   open, parsed, vars, rvars, svars, gvars, qvars>>

\* one iteration of readIdentifier's loop
readIdentifier ==
    /\ lexPc \in {"readIdentifier", "readBinder"}
    /\ isLetter(ch) \/ isDigit(ch) \/ ch = "-" \/ ch = "_"
    /\ readChar
    /\ UNCHANGED <<input, lexPc, from, sb, strErr, lexed, driver, curr, open,
                   parsed, vars, rvars, svars, gvars, qvars>>

\* readIdentifier returns l.input[pos:l.pos]
IdentifierEnd ==
    /\ lexPc = "readIdentifier"
    /\ ~(isLetter(ch) \/ isDigit(ch) \/ ch = "-" \/ ch = "_")
    /\ LET literal == SubSeq(input, from + 1, lexPos)
           tokType == IF literal = <<"t", "r", "u", "e">>
                         \/ literal = <<"f", "a", "l", "s", "e">>
                      THEN "Boolean" ELSE "Ident"
       IN  ReturnToken(LexerToken(tokType, literal), from, lexPos)
    /\ UNCHANGED <<lexPos, readPos, ch, from, sb, strErr>>

\* case '/' before a letter: readChar, then readIdentifier is entered
BinderStart ==
    /\ lexPc = "NextToken"
    /\ ch = "/"
    /\ isLetter(peekChar)
    /\ readChar
    /\ lexPc' = "readBinder"
    /\ from' = readPos
    /\ UNCHANGED <<input, sb, strErr, lexed, driver, curr, open, parsed, vars,
                   rvars, svars, gvars, qvars>>

\* readIdentifier returns to the case '/'
BinderEnd ==
    /\ lexPc = "readBinder"
    /\ ~(isLetter(ch) \/ isDigit(ch) \/ ch = "-" \/ ch = "_")
    /\ ReturnToken(LexerToken("Binder", <<"/">> \o SubSeq(input, from + 1, lexPos)),
                   from - 1, lexPos)
    /\ UNCHANGED <<lexPos, readPos, ch, from, sb, strErr>>

\* case '/' before anything else: newToken(TokenIllegal)
SlashIllegal ==
    /\ lexPc = "NextToken"
    /\ ch = "/"
    /\ ~isLetter(peekChar)
    /\ readChar
    /\ ReturnToken(LexerToken("Illegal", <<ch>>), lexPos, readPos)
    /\ UNCHANGED <<from, sb, strErr>>

\* a readNumber that leaves the sign where it is
NumberStartKeepsSign ==
    /\ lexPc = "NextToken"
    /\ isDigit(ch) \/ ch = "-"
    /\ lexPc' = "readNumber"
    /\ from' = lexPos
    /\ UNCHANGED <<lexPos, readPos, ch>>
    /\ UNCHANGED <<input, sb, strErr, lexed, driver, curr, open, parsed, vars,
                   rvars, svars, gvars, qvars>>

\* the default case for a digit or '-': readNumber is entered, pos := l.pos,
\* and reads past the sign
NumberStart ==
    /\ lexPc = "NextToken"
    /\ isDigit(ch) \/ ch = "-"
    /\ lexPc' = "readNumber"
    /\ from' = lexPos
    /\ IF ch = "-" THEN readChar ELSE UNCHANGED <<lexPos, readPos, ch>>
    /\ UNCHANGED <<input, sb, strErr, lexed, driver, curr, open, parsed, vars,
                   rvars, svars, gvars, qvars>>

\* one iteration of one of readNumber's three loops over digits
NumberDigit ==
    /\ lexPc \in {"readNumber", "fraction", "exponent"}
    /\ isDigit(ch)
    /\ readChar
    /\ UNCHANGED <<input, lexPc, from, sb, strErr, lexed, driver, curr, open,
                   parsed, vars, rvars, svars, gvars, qvars>>

\* readNumber at the point after the digits of the integer part
NumberPoint ==
    /\ lexPc = "readNumber"
    /\ ch = "."
    /\ readChar
    /\ lexPc' = "fraction"
    /\ UNCHANGED <<input, from, sb, strErr, lexed, driver, curr, open, parsed,
                   vars, rvars, svars, gvars, qvars>>

\* readNumber at e or E, after the integer part or after the fraction: it
\* reads past the letter and past a sign that follows it
NumberExponent ==
    /\ lexPc \in {"readNumber", "fraction"}
    /\ ch \in {"e", "E"}
    /\ readChars(IF peekChar \in {"+", "-"} THEN 2 ELSE 1)
    /\ lexPc' = "exponent"
    /\ UNCHANGED <<input, from, sb, strErr, lexed, driver, curr, open, parsed,
                   vars, rvars, svars, gvars, qvars>>

\* readNumber returns l.input[pos:l.pos] and the type
NumberEnd ==
    /\ lexPc \in {"readNumber", "fraction", "exponent"}
    /\ ~isDigit(ch)
    /\ lexPc = "readNumber" => ch \notin {".", "e", "E"}
    /\ lexPc = "fraction" => ch \notin {"e", "E"}
    /\ ReturnToken(LexerToken(IF lexPc = "readNumber" THEN "Int" ELSE "Float",
                              SubSeq(input, from + 1, lexPos)),
                   from, lexPos)
    /\ UNCHANGED <<lexPos, readPos, ch, from, sb, strErr>>

\* case '"': readString is entered and reads past the opening quote
StringStart ==
    /\ lexPc = "NextToken"
    /\ ch = Quote
    /\ lexPc' = "readString"
    /\ from' = lexPos
    /\ sb' = <<>>
    /\ strErr' = FALSE
    /\ readChar
    /\ UNCHANGED <<input, lexed, driver, curr, open, parsed, vars, rvars, svars, gvars, qvars>>

\* readString's loop at a byte that is no backslash
StringByte ==
    /\ lexPc = "readString"
    /\ ch # Quote /\ ch # Nul /\ ch # Backslash
    /\ sb' = Append(sb, ch)
    /\ readChar
    /\ UNCHANGED <<input, lexPc, from, strErr, lexed, driver, curr, open,
                   parsed, vars, rvars, svars, gvars, qvars>>

\* the byte an escape stands for
Escapes ==
    [c \in {"n", "t", Quote, Backslash} |->
        CASE c = "n" -> Newline [] c = "t" -> Tab
          [] c = Quote -> Quote [] c = Backslash -> Backslash]

\* readString's loop at a backslash followed by n, t, a quote or a backslash
StringEscape ==
    /\ lexPc = "readString"
    /\ ch = Backslash
    /\ peekChar \in DOMAIN Escapes
    /\ sb' = Append(sb, Escapes[peekChar])
    /\ readChars(2)
    /\ UNCHANGED <<input, lexPc, from, strErr, lexed, driver, curr, open,
                   parsed, vars, rvars, svars, gvars, qvars>>

\* the default case that keeps err nil
IllegalEscapeUnreported ==
    /\ lexPc = "readString"
    /\ ch = Backslash
    /\ peekChar \notin DOMAIN Escapes
    /\ sb' = sb \o <<Backslash, peekChar>>
    /\ readChars(2)
    /\ UNCHANGED <<input, lexPc, from, strErr, lexed, driver, curr, open,
                   parsed, vars, rvars, svars, gvars, qvars>>

\* readString's loop at a backslash followed by any other byte: the default
\* case sets err and writes the backslash and the byte
IllegalEscape ==
    /\ lexPc = "readString"
    /\ ch = Backslash
    /\ peekChar \notin DOMAIN Escapes
    /\ strErr' = TRUE
    /\ sb' = sb \o <<Backslash, peekChar>>
    /\ readChars(2)
    /\ UNCHANGED <<input, lexPc, from, lexed, driver, curr, open, parsed,
                   vars, rvars, svars, gvars, qvars>>

\* readString returns at the closing quote or at the end of the input;
\* NextToken reads past it and chooses the token's type
StringEnd ==
    /\ lexPc = "readString"
    /\ ch = Quote \/ ch = Nul
    /\ readChar
    /\ ReturnToken(LexerToken(IF strErr THEN "Illegal" ELSE "String", sb), from, readPos)
    /\ UNCHANGED <<from, sb, strErr>>

\* ------------------------------------------------------------- the parser
startsTokenGroup(tokenType) ==
    tokenType \in {"LBracket", "LCurly", "Ident", "Int", "Float", "String",
                   "Binder", "Boolean"}

\* an activation of parseTokenList, called by `caller`, its local l, and the
\* error parseTokenGroup is going to return to it, if any
Open(caller) == [caller |-> caller, l |-> <<>>, err |-> "none"]

\* the innermost parseTokenList
list == open[Len(open)]

\* the loop of the innermost parseTokenList appends group
AppendGroup(group) ==
    [open EXCEPT ![Len(open)].l = Append(@, group)]

\* parseTokenGroup returns the error e once readAndAdvanceToken is back
Fails(e) == [open EXCEPT ![Len(open)].err = e]

\* Parse was called and returned nothing yet; the lexer is not running
InParse == driver = "Parse" /\ lexPc = "idle" /\ parsed = <<>>

\* the same, and parseTokenGroup has no error to return
Parsing == InParse /\ (open # <<>> => list.err = "none")

\* Parse: readAndAdvanceToken, then parseTokenList is called
Parse ==
    /\ Parsing
    /\ open = <<>>
    /\ open' = <<Open("Parse")>>
    /\ lexPc' = "NextToken"
    /\ UNCHANGED <<input, lexPos, readPos, ch, from, sb, strErr, lexed, driver,
                   curr, parsed, vars, rvars, svars, gvars, qvars>>

\* parseSingleToken for an Ident or a String
parseSingleToken ==
    /\ Parsing
    /\ open # <<>>
    /\ curr.Type \in {"Ident", "String"}
    /\ open' = AppendGroup(IF curr.Type = "Ident" THEN Identifier(curr.Literal)
                           ELSE StringLiteral(curr.Literal))
    /\ lexPc' = "NextToken"
    /\ UNCHANGED <<input, lexPos, readPos, ch, from, sb, strErr, lexed, driver,
                   curr, parsed, vars, rvars, svars, gvars, qvars>>

\* what Parse returns
Parsed(l, e) == [list |-> l, err |-> e]

DigitValue(c) ==
    CHOOSE d \in 0..9 : <<"0", "1", "2", "3", "4", "5", "6", "7", "8", "9">>[d + 1] = c

\* the number the decimal digits ds write
RECURSIVE DigitsValue(_)
DigitsValue(ds) ==
    IF ds = <<>> THEN 0
    ELSE 10 * DigitsValue(SubSeq(ds, 1, Len(ds) - 1)) + DigitValue(ds[Len(ds)])

AllDigits(ds) == \A i \in DOMAIN ds : isDigit(ds[i])

\* s without its sign
Unsigned(s) == IF s # <<>> /\ s[1] \in {"+", "-"} THEN Tail(s) ELSE s

\* -1 for a literal with a minus sign
SignOf(s) == IF s # <<>> /\ s[1] = "-" THEN -1 ELSE 1

\* what a strconv function returns
Converted(val, e) == [val |-> val, err |-> e]

\* strconv.ParseInt(s, 10, 64): a sign and decimal digits, at least one (the
\* literals are shorter than the 19 digits of the largest int64)
ParseInt(s) ==
    IF Unsigned(s) = <<>> \/ ~AllDigits(Unsigned(s))
    THEN Converted(0, "could not parse number")
    ELSE Converted(SignOf(s) * DigitsValue(Unsigned(s)), "none")

\* the first place of s that holds one of the bytes, or Len(s) + 1
FirstOf(s, bytes) ==
    IF \E i \in DOMAIN s : s[i] \in bytes
    THEN CHOOSE i \in DOMAIN s :
            s[i] \in bytes /\ \A j \in 1..(i - 1) : s[j] \notin bytes
    ELSE Len(s) + 1

\* m and e with the zeros at the end of m counted in e
RECURSIVE Reduced(_, _)
Reduced(m, e) ==
    IF m # 0 /\ m % 10 = 0 THEN Reduced(m \div 10, e + 1) ELSE <<m, e>>

\* the number of decimal digits of the natural number n
RECURSIVE DigitCount(_)
DigitCount(n) == IF n < 10 THEN 1 ELSE 1 + DigitCount(n \div 10)

\* the power of ten of the first digit of m * 10^e, m not 0
Magnitude(d) == DigitCount(Abs(d[1])) - 1 + d[2]

\* of a number of nine digits, as many of the first as m has
Leading(digits, m) == digits \div 10^(9 - DigitCount(Abs(m)))

\* m * 10^e is nearer to 2^1024 than to the largest float64,
\* 1.7976931348623157e308, or beyond: strconv returns ErrRange.  The two
\* are 1.797693134862315807e308 apart from zero at their middle.
OutOfRange(d) ==
    /\ d[1] # 0
    /\ \/ Magnitude(d) > 308
       \/ Magnitude(d) = 308 /\ Abs(d[1]) > Leading(179769313, d[1])

\* m * 10^e is not nearer to the least float64 above zero, 5e-324, than to
\* zero: the float64 is zero and strconv returns no error.  The middle of
\* the two is 2.470328229206232721e-324.
Vanishes(d) ==
    \/ d[1] = 0
    \/ Magnitude(d) < -324
    \/ Magnitude(d) = -324 /\ Abs(d[1]) <= Leading(247032822, d[1])

\* the float64 nearest to m * 10^e, written as the evaluator and the
\* renderer write float64 values: a whole number as an integer, a fraction
\* as a pair in lowest terms; and a number too large or too small for that
\* as the decimal that names it.  The sign of a zero is not kept.
Float64Of(d) ==
    IF Vanishes(d) THEN 0
    ELSE IF d[2] >= 0 /\ d[2] <= 4 /\ Abs(d[1]) < 100000 THEN d[1] * 10^d[2]
    ELSE IF d[2] < 0 /\ d[2] >= -4 /\ Abs(d[1]) < 100000 THEN Rat(d[1], 10^(-d[2]))
    ELSE [decimal |-> d]

\* strconv.ParseFloat(s, 64) of a literal of readNumber: a sign, digits with
\* or without a point, at least one digit, and after e or E a sign and at
\* least one digit; an error as well for a number beyond the float64 range
ParseFloat(s) ==
    LET body == Unsigned(s)
        eAt == FirstOf(body, {"e", "E"})
        mantissa == SubSeq(body, 1, eAt - 1)
        exponent == SubSeq(body, eAt + 1, Len(body))
        pAt == FirstOf(mantissa, {"."})
        whole == SubSeq(mantissa, 1, pAt - 1)
        fraction == SubSeq(mantissa, pAt + 1, Len(mantissa))
    IN  IF /\ AllDigits(whole) /\ AllDigits(fraction)
           /\ whole \o fraction # <<>>
           /\ eAt <= Len(body) =>
                 Unsigned(exponent) # <<>> /\ AllDigits(Unsigned(exponent))
        THEN With(Reduced(SignOf(s) * DigitsValue(whole \o fraction),
                          (IF eAt <= Len(body)
                           THEN SignOf(exponent) * DigitsValue(Unsigned(exponent))
                           ELSE 0) - Len(fraction)),
                  LAMBDA d :
                     IF OutOfRange(d)
                     THEN Converted(0, "could not parse number")
                     ELSE Converted(Float64Of(d), "none"))
        ELSE Converted(0, "could not parse number")

\* strconv.ParseBool(s)
ParseBool(s) ==
    IF s \in {<<"1">>, <<"t">>, <<"T">>, <<"t", "r", "u", "e">>,
               <<"T", "R", "U", "E">>, <<"T", "r", "u", "e">>}
    THEN Converted(TRUE, "none")
    ELSE IF s \in {<<"0">>, <<"f">>, <<"F">>, <<"f", "a", "l", "s", "e">>,
                    <<"F", "A", "L", "S", "E">>, <<"F", "a", "l", "s", "e">>}
    THEN Converted(FALSE, "none")
    ELSE Converted(FALSE, "could not parse boolean")

\* the token parseSingleToken has read goes to strconv, readAndAdvanceToken
\* having called NextToken: the group joins the list, or the error is
\* returned when NextToken is back
parseLiteral(type, r, group) ==
    /\ Parsing
    /\ open # <<>>
    /\ curr.Type = type
    /\ open' = IF r.err = "none" THEN AppendGroup(group) ELSE Fails(r.err)
    /\ lexPc' = "NextToken"
    /\ UNCHANGED <<input, lexPos, readPos, ch, from, sb, strErr, lexed, driver,
                   curr, parsed, vars, rvars, svars, gvars, qvars>>

parseIntLiteral ==
    \E r \in {ParseInt(curr.Literal)} : parseLiteral("Int", r, IntLiteral(r.val))

parseFloatLiteral ==
    \E r \in {ParseFloat(curr.Literal)} : parseLiteral("Float", r, FloatLiteral(r.val))

parseBooleanLiteral ==
    \E r \in {ParseBool(curr.Literal)} : parseLiteral("Boolean", r, BoolLiteral(r.val))

\* parseBinder: the name is the literal without its slash
parseBinder ==
    \E r \in {IF curr.Literal # <<>> /\ curr.Literal[1] = "/"
               THEN Converted(Tail(curr.Literal), "none")
               ELSE Converted(<<>>, "binder must start with /")} :
       parseLiteral("Binder", r, Binder(r.val))

\* parseTokenList gets the error of parseTokenGroup; every caller up to Parse
\* returns it
parseTokenListError ==
    /\ InParse
    /\ open # <<>>
    /\ list.err # "none"
    /\ open' = <<>>
    /\ parsed' = Parsed(<<>>, list.err)
    /\ UNCHANGED <<input, lexPos, readPos, ch, lexPc, from, sb, strErr, lexed,
                   driver, curr, vars, rvars, svars, gvars, qvars>>

\* parseFunction: consume(TokenLCurly), then parseTokenList is called
parseFunction ==
    /\ Parsing
    /\ open # <<>>
    /\ curr.Type = "LCurly"
    /\ open' = Append(open, Open("parseFunction"))
    /\ lexPc' = "NextToken"
    /\ UNCHANGED <<input, lexPos, readPos, ch, from, sb, strErr, lexed, driver,
                   curr, parsed, vars, rvars, svars, gvars, qvars>>

\* parseTokenList returns to parseFunction, consume(TokenRCurly) succeeds
\* and the Function joins the enclosing list
parseFunctionEnd ==
    /\ Parsing
    /\ open # <<>>
    /\ ~startsTokenGroup(curr.Type)
    /\ list.caller = "parseFunction"
    /\ curr.Type = "RCurly"
    /\ open' = [SubSeq(open, 1, Len(open) - 1)
                  EXCEPT ![Len(open) - 1].l = Append(@, Function(list.l))]
    /\ lexPc' = "NextToken"
    /\ UNCHANGED <<input, lexPos, readPos, ch, from, sb, strErr, lexed, driver,
                   curr, parsed, vars, rvars, svars, gvars, qvars>>

\* parseArray: consume(TokenLBracket), then parseTokenList is called
parseArray ==
    /\ Parsing
    /\ open # <<>>
    /\ curr.Type = "LBracket"
    /\ open' = Append(open, Open("parseArray"))
    /\ lexPc' = "NextToken"
    /\ UNCHANGED <<input, lexPos, readPos, ch, from, sb, strErr, lexed, driver,
                   curr, parsed, vars, rvars, svars, gvars, qvars>>

\* a parseArray that takes either closer for its own
parseArrayEndAnyCloser ==
    /\ Parsing
    /\ open # <<>>
    /\ ~startsTokenGroup(curr.Type)
    /\ list.caller = "parseArray"
    /\ curr.Type \in {"RBracket", "RCurly"}
    /\ open' = [SubSeq(open, 1, Len(open) - 1)
                  EXCEPT ![Len(open) - 1].l = Append(@, Array(list.l))]
    /\ lexPc' = "NextToken"
    /\ UNCHANGED <<input, lexPos, readPos, ch, from, sb, strErr, lexed, driver,
                   curr, parsed, vars, rvars, svars, gvars, qvars>>

\* parseTokenList returns to parseArray, consume(TokenRBracket) succeeds and
\* the Array joins the enclosing list
parseArrayEnd ==
    /\ Parsing
    /\ open # <<>>
    /\ ~startsTokenGroup(curr.Type)
    /\ list.caller = "parseArray"
    /\ curr.Type = "RBracket"
    /\ open' = [SubSeq(open, 1, Len(open) - 1)
                  EXCEPT ![Len(open) - 1].l = Append(@, Array(list.l))]
    /\ lexPc' = "NextToken"
    /\ UNCHANGED <<input, lexPos, readPos, ch, from, sb, strErr, lexed, driver,
                   curr, parsed, vars, rvars, svars, gvars, qvars>>

\* consume(TokenRBracket) fails; every caller up to Parse returns the error
parseArrayError ==
    /\ Parsing
    /\ open # <<>>
    /\ ~startsTokenGroup(curr.Type)
    /\ list.caller = "parseArray"
    /\ curr.Type # "RBracket"
    /\ open' = <<>>
    /\ parsed' = Parsed(<<>>, "expected RBracket")
    /\ UNCHANGED <<input, lexPos, readPos, ch, lexPc, from, sb, strErr, lexed,
                   driver, curr, vars, rvars, svars, gvars, qvars>>

\* consume(TokenRCurly) fails; every caller up to Parse returns the error
parseFunctionError ==
    /\ Parsing
    /\ open # <<>>
    /\ ~startsTokenGroup(curr.Type)
    /\ list.caller = "parseFunction"
    /\ curr.Type # "RCurly"
    /\ open' = <<>>
    /\ parsed' = Parsed(<<>>, "expected RCurly")
    /\ UNCHANGED <<input, lexPos, readPos, ch, lexPc, from, sb, strErr, lexed,
                   driver, curr, vars, rvars, svars, gvars, qvars>>

\* parseTokenList returns to Parse, which wants the end of the input
ParseReturn ==
    /\ Parsing
    /\ open # <<>>
    /\ ~startsTokenGroup(curr.Type)
    /\ list.caller = "Parse"
    /\ open' = <<>>
    /\ parsed' = IF curr.Type # "EOF"
                 THEN Parsed(<<>>, "unexpected token")
                 ELSE Parsed(list.l, "none")
    /\ UNCHANGED <<input, lexPos, readPos, ch, lexPc, from, sb, strErr, lexed,
                   driver, curr, vars, rvars, svars, gvars, qvars>>

LexNext ==
    \/ skipWhitespace
    \/ newToken
    \/ newTokenIllegal
    \/ EndOfInput
    \/ CommentStart
    \/ skipComment
    \/ CommentEnd
    \/ IdentifierStart
    \/ readIdentifier
    \/ IdentifierEnd
    \/ BinderStart
    \/ BinderEnd
    \/ SlashIllegal
    \/ NumberStart
    \/ NumberDigit
    \/ NumberPoint
    \/ NumberExponent
    \/ NumberEnd
    \/ StringStart
    \/ StringByte
    \/ StringEscape
    \/ IllegalEscape
    \/ StringEnd
    \/ Parse
    \/ parseSingleToken
    \/ parseIntLiteral
    \/ parseFloatLiteral
    \/ parseBinder
    \/ parseBooleanLiteral
    \/ parseTokenListError
    \/ parseFunction
    \/ parseFunctionEnd
    \/ parseFunctionError
    \/ parseArray
    \/ parseArrayEnd
    \/ parseArrayError
    \/ ParseReturn

LexSpec == LexInit /\ [][LexNext]_<<lvars, vars, rvars, svars, gvars, qvars>>

\* the caller of NextToken has what it called for: the loop over NextToken
\* is over, or Parse has returned
LexHalted == lexPc = "done" \/ parsed # <<>>

\* the lexer and its caller run on one goroutine, which goes on until the
\* caller returns
LexFairSpec ==
    LexSpec /\ ([]<>LexHalted \/ []<><<LexNext>>_<<lvars, vars, rvars, svars, gvars, qvars>>)

\* ---- C30: string literals with an illegal escape
\* the first byte at or after i that closes a string literal whose inside
\* begins at i: the first quote no backslash escapes, or the end of the input
RECURSIVE ClosingQuote(_)
ClosingQuote(i) ==
    IF i > Len(input) THEN Len(input) + 1
    ELSE IF input[i] = Quote THEN i
    ELSE IF input[i] = Backslash THEN ClosingQuote(i + 2)
    ELSE ClosingQuote(i + 1)

\* the end of the comment that begins at i
RECURSIVE CommentClose(_)
CommentClose(i) ==
    IF i > Len(input) \/ input[i] = Newline THEN i ELSE CommentClose(i + 1)

\* the opening quotes of the string literals of the input at or after i
RECURSIVE StringLiterals(_)
StringLiterals(i) ==
    IF i > Len(input) THEN {}
    ELSE IF input[i] = Quote THEN {i} \cup StringLiterals(ClosingQuote(i + 1) + 1)
    ELSE IF input[i] = "%" THEN StringLiterals(CommentClose(i))
    ELSE StringLiterals(i + 1)

\* the backslashes that begin an escape in a literal whose inside begins at i
RECURSIVE EscapesFrom(_)
EscapesFrom(i) ==
    IF i > Len(input) \/ input[i] = Quote THEN {}
    ELSE IF input[i] = Backslash THEN {i} \cup EscapesFrom(i + 2)
    ELSE EscapesFrom(i + 1)

\* the literal opened at q holds an escape other than \n, \t, \" and \\
HasIllegalEscape(q) ==
    \E i \in EscapesFrom(q + 1) :
        i = Len(input) \/ input[i + 1] \notin {"n", "t", Quote, Backslash}

IllegalLiterals == { q \in StringLiterals(1) : HasIllegalEscape(q) }

\* the last byte of the literal opened at q
LastByte(q) ==
    IF ClosingQuote(q + 1) > Len(input) THEN Len(input) ELSE ClosingQuote(q + 1)

\* C30: a string literal that holds an escape other than \n, \t, \" and \\
\* is lexed as one Illegal token: the token NextToken returns for it has type
\* Illegal and spans the literal to its last byte, and no token begins inside
\* it; a loop over NextToken that reached EOF returned such a token for every
\* such literal; and a Parse of an input that holds such a literal has
\* returned an error and no token list.
C30_IllegalEscape ==
    /\ \A k \in DOMAIN lexed : \A q \in IllegalLiterals :
          /\ lexed[k].from + 1 = q =>
                lexed[k].Type = "Illegal" /\ lexed[k].to >= LastByte(q)
          /\ ~(q < lexed[k].from + 1 /\ lexed[k].from + 1 <= LastByte(q))
    /\ driver = "readAllTokens" /\ lexPc = "done" =>
          \A q \in IllegalLiterals : \E k \in DOMAIN lexed : lexed[k].from + 1 = q
    /\ driver = "Parse" /\ parsed # <<>> /\ IllegalLiterals # {} =>
          parsed.err # "none" /\ parsed.list = <<>>

\* Parse of an input that holds the literal "\q" lexed it as one Illegal
\* token with the literal \q, met it as its current token and returned an
\* error
C30_Witness ==
    /\ driver = "Parse" /\ parsed # <<>> /\ parsed.err # "none"
    /\ curr.Type = "Illegal"
    /\ \E k \in DOMAIN lexed :
          /\ lexed[k].from + 1 \in IllegalLiterals
          /\ lexed[k].Type = "Illegal"
          /\ lexed[k].Literal = <<Backslash, "q">>
          /\ lexed[k].to - lexed[k].from = 4

\* ---- C25: a surface function that fails
\* the surface function of the sphere gives no Material: the sphere has no
\* EvalState, or the body raises an error or leaves no Material on the stack
SurfaceFails(sph) ==
    /\ sph.SurfaceFn.t # "nil"
    /\ sph.EvalState = "nil" \/ sph.SurfaceFn.Code \in FailingBodies

\* the ray meets the ball of the sphere in front of its origin
Meets(sph, ray) == ~IsNoHit(Intersect(Geometric(sph), ray, EvalStateNow).hit)

\* the ray meets the sphere and computeSphereSurface, called on the
\* EvalState es for the point where it does, returns an error
FailsOn(sph, ray, es) ==
    \E met \in { Intersect(Geometric(sph), ray, es).hit } :
       /\ ~IsNoHit(met)
       /\ computeSphereSurfaceOn(sph, met.Point, es).err # "none"

\* every pixel of the image has been written once
FullImage ==
    /\ DOMAIN img = Pixels
    /\ \A p \in Pixels : Len(img[p]) = 1

\* closestHit does not return the hit of a sphere whose surface function
\* failed when it was asked, and none of a sphere whose surface function
\* always fails; it returns the nearest of the other hits, and nothing but
\* the activation of traceRay moves on
C25_Step ==
    CallsClosestHit =>
       /\ \A i \in DOMAIN scene.Objects :
             FailsOn(scene.Objects[i], active.ray,
                     AtObject(i, 0, scene, active.ray, EvalStateNow))
             => /\ calls'[Len(calls')].hit.Object # scene.Objects[i].Ptr
                /\ IsNoHit(Reports(scene, active.ray, EvalStateNow)[i])
       /\ Answers(calls'[Len(calls')].hit,
                  Reports(scene, active.ray, EvalStateNow))
       /\ Len(calls') = Len(calls)
       /\ renderPc' = renderPc
       /\ err' = "none"

\* C25: when the surface function of a sphere fails (an error of the
\* evaluation, no EvalState, or no Material on the stack), the sphere is not
\* hit: its intersection is reported as no hit and closestHit returns the
\* nearest hit of the other objects, no error is left behind, and a Render
\* of a scene with such a sphere still returns, with an image every pixel of
\* which was written.
C25_FailedSurfaceIsAMiss ==
    /\ [][C25_Step]_<<rvars, vars, lvars, svars, gvars, qvars>>
    /\ (\E i \in DOMAIN given.Objects : SurfaceFails(given.Objects[i]))
          => <>(RenderDone /\ FullImage)

\* a ray met a sphere whose surface function fails and closestHit returned
\* the hit on the sphere behind it
C25_Witness ==
    /\ AtPc("hit")
    /\ \E i \in DOMAIN scene.Objects :
          /\ SurfaceFails(scene.Objects[i])
          /\ Meets(scene.Objects[i], active.ray)
    /\ ~IsNoHit(active.hit)
    /\ active.hit.Object = FarSphere.Ptr

\* ---- C29: the near root
\* L.Dot(ray.Direction): how far along the ray the centre of the sphere lies
Along(sph, ray) == Dot(Sub(sph.Center, ray.Origin), ray.Direction)

\* the discriminant: the square of the radius less the square of the
\* distance of the centre from the line of the ray
Discriminant(sph, ray) ==
    RSub(square(sph.Radius),
         RSub(Dot(Sub(sph.Center, ray.Origin), Sub(sph.Center, ray.Origin)),
              square(Along(sph, ray))))

\* the near root t_ca - sqrt(discriminant) is not greater than 0
NearRootNotPositive(sph, ray) ==
    ~RLess(Discriminant(sph, ray), square(Along(sph, ray)))

\* Intersect has a root to report
HasNearRoot(sph, ray) ==
    /\ ~RLess(Along(sph, ray), Zero)
    /\ ~RLess(Discriminant(sph, ray), Zero)
    /\ ~NearRootNotPositive(sph, ray)

\* hit is a hit at the near root of the sphere on the ray: its t is
\* positive, not beyond the point nearest to the centre, and on the sphere
AtNearRoot(hit, sph, ray) ==
    /\ ~IsNoHit(hit)
    /\ hit.Object = sph.Ptr
    /\ RLess(Zero, hit.T)
    /\ ~RLess(Along(sph, ray), hit.T)
    /\ square(RSub(Along(sph, ray), hit.T)) = Discriminant(sph, ray)
    /\ hit.Point = Add(ray.Origin, Scale(ray.Direction, hit.T))

\* what Intersect(sph, ray) returns, called on the EvalState as it is now
Reported(sph, ray) == Intersect(sph, ray, EvalStateNow).hit

\* what Intersect returns for the misses, and that a hit is at the near root
C29_Misses(sph, ray) ==
    IF RLess(Along(sph, ray), Zero) THEN IsNoHit(Reported(sph, ray))
    ELSE /\ RLess(Discriminant(sph, ray), Zero) => IsNoHit(Reported(sph, ray))
         /\ NearRootNotPositive(sph, ray) => IsNoHit(Reported(sph, ray))
         /\ ~IsNoHit(Reported(sph, ray)) =>
               AtNearRoot(Reported(sph, ray), sph, ray)

\* the rays being traced
Traced == { calls[k].ray : k \in DOMAIN calls }

\* the spheres of the scene
Spheres == { scene.Objects[i] : i \in DOMAIN scene.Objects }

\* C29 as stated: for every sphere of the scene and every ray being traced,
\* Intersect reports no hit when the centre is behind the origin, when the
\* discriminant is negative or when the near root is not positive, and
\* otherwise the near root.
C29_AsStated ==
    \A sph \in Spheres : \A ray \in Traced :
       /\ C29_Misses(sph, ray)
       /\ HasNearRoot(sph, ray) => AtNearRoot(Reported(sph, ray), sph, ray)

\* C29: for every sphere of the scene and every ray being traced, Intersect
\* reports no hit when the centre is behind the origin (t_ca < 0), when the
\* discriminant is negative or when the near root is not positive;
\* otherwise it reports no hit when the sphere's surface function fails, and
\* else a hit whose t is the near root: positive, never the far root, a
\* number also where the ray grazes the sphere.
C29_NearRoot ==
    \A sph \in Spheres : \A ray \in Traced :
       /\ C29_Misses(sph, ray)
       /\ HasNearRoot(sph, ray) =>
             IF FailsOn(sph, ray, EvalStateNow) THEN IsNoHit(Reported(sph, ray))
             ELSE AtNearRoot(Reported(sph, ray), sph, ray)

\* the ray along the axis grazes the sphere beside it (the discriminant is
\* 0) and is reported to hit it at t = t_ca, while the centre of the mirror
\* lies behind the origin of the ray and is not hit
C29_Witness ==
    /\ AtPc("hit")
    /\ Discriminant(GrazedSphere, active.ray) = Zero
    /\ active.hit.Object = GrazedSphere.Ptr
    /\ active.hit.T = Along(GrazedSphere, active.ray)
    /\ RLess(Along(BackMirror, active.ray), Zero)
    /\ BackMirror \in Spheres

\* the ray along the axis hits the sphere above it at the near root
\* 3 - sqrt(3/4), where the normal is (0, -1/2, -sqrt(3/4))
C29_IrrationalRoot ==
    /\ given = RaisedScene(1)
    /\ AtPc("hit")
    /\ active.ray.Direction = Vec3(Zero, Zero, One)
    /\ active.hit.Object = RaisedSphere.Ptr
    /\ active.hit.T = RSub(FromInt(3), RSqrt(Rat(3, 4)))
    /\ active.hit.T = Surd(FromInt(3), Rat(-1, 2), 3)
    /\ active.hit.Normal = Vec3(Zero, Rat(-1, 2), Surd(Zero, Rat(-1, 2), 3))
    /\ AtNearRoot(active.hit, RaisedSphere, active.ray)

\* ---- computeSphereSurface statement by statement, called by workers
\* the workers there can be
Workers == {"A", "B"}

\* the *EvalState values
EvalStates == {"state", "another"}

\* a []Value: the backing array it points to, its length and its capacity.
\* An array is named by the worker whose append allocated it and its number
\* among the arrays of that worker; the nil slice points to none.
Slice(arr, len, cap) == [arr |-> arr, len |-> len, cap |-> cap]
NilSlice == Slice(<<>>, 0, 0)

\* the backing array of the slice s in the heap, and the elements of s
Backing(s, heap) == IF s.cap = 0 THEN <<>> ELSE heap[s.arr[1]][s.arr[2]]
Elements(s, heap) == SubSeq(Backing(s, heap), 1, s.len)

\* the capacity append gives the array it allocates when a slice of
\* capacity cap is full: 1, and then twice the capacity
GrownCap(cap) == IF cap = 0 THEN 1 ELSE 2 * cap

\* the array append allocates for the full slice s and the value: the
\* elements of s, the value, and nil up to the capacity
Grown(s, value, heap) ==
    [k \in 1..GrownCap(s.cap) |->
        IF k <= s.len THEN Backing(s, heap)[k]
        ELSE IF k = s.len + 1 THEN value
        ELSE NilValue]

\* the addresses of the maps: the environment of the EvalState "state", the
\* environment a closure captured (SurfaceEnv), the one another closure
\* captured, and the environment of the EvalState "another"
StateEnv == 1
OtherSurfaceEnv == 3
AnotherEnv == 4

\* e.Env when the workers start
EntryEnv(e) == IF e = "state" THEN StateEnv ELSE AnotherEnv

\* a surface function that takes its colour from the variable c of the
\* program and kd, ks and n from u; it leaves face on the stack
SurfaceByU ==
    <<Binder("v"), Binder("u"),
      Identifier("c"), Identifier("u"), Identifier("u"), Identifier("u")>>

\* the surface functions of the workers' spheres
Bodies == {SurfaceByU} \cup FailingBodies

\* the points the workers ask the surface of: u = 1/6 and u = 0
FrontPoint == Vec3(Zero, Zero, Rat(1, 2))
SidePoint == Vec3(Rat(1, 2), Zero, One)

\* the spheres with a surface function captured in env and evaluated on e
ShadedSpheres(e, env) ==
    { SurfaceSphere(7, Vec3(Zero, Zero, One), Rat(1, 2), VClosure(body, env), e) :
        body \in Bodies }

\* an activation of computeSphereSurface(sphere, point) that has not begun:
\* where it is; the token Eval is at; which Push or pop of its caller it is
\* at; the locals oldEnv of computeSphereSurface, value of Push and val of
\* pop; the e.Stack and the e.Env an unfinished statement has read; what
\* popValue has returned so far; and what it returns
Activation(sph, hitPoint) ==
    [pc |-> "start", sphere |-> sph, point |-> hitPoint, i |-> 1,
     caller |-> "computeSphereSurface", k |-> 0, oldEnv |-> 0,
     val |-> NilValue, seen |-> NilSlice, map |-> 0, popped |-> <<>>,
     material |-> NoMaterial, err |-> "none"]

\* the surface functions of two workers that start together on one
\* EvalState: the short ones, which leave the three inputs or fail at their
\* first token, one of them at least failing before it pops
SharingBodies ==
    {<<LeavesNothing, Unbound>>, <<Unbound, LeavesNothing>>, <<Unbound, Unbound>>}

\* the surface functions of two workers with an EvalState each
OwnBodies == (Bodies \X {SurfaceByU, Unbound}) \cup ({SurfaceByU} \X Bodies)

\* worker A's sphere, worker B's sphere and the point worker B asks for
Pair(bodies, e, env, hitPoint) ==
    <<SurfaceSphere(7, Vec3(Zero, Zero, One), Rat(1, 2),
                    VClosure(bodies[1], SurfaceEnv), "state"),
      SurfaceSphere(7, Vec3(Zero, Zero, One), Rat(1, 2),
                    VClosure(bodies[2], env), e),
      hitPoint>>

\* worker B has made the three pushes of computeSphereSurface and worker A,
\* on the same EvalState, has not begun; both surface functions leave the
\* three inputs
StartedFirst ==
    [w \in Workers |->
        IF w = "A" THEN Activation(Pair(<<LeavesNothing, LeavesNothing>>, "state",
                                        SurfaceEnv, SidePoint)[1], FrontPoint)
        ELSE [Activation(Pair(<<LeavesNothing, LeavesNothing>>, "state",
                              SurfaceEnv, SidePoint)[2], SidePoint)
                EXCEPT !.pc = "oldEnv", !.k = 3]]

\* one worker alone, with any sphere; or two workers: A on the EvalState
\* "state" with a closure that captured SurfaceEnv, B on the same EvalState
\* or on its own, with a closure that captured the same map or another
InitialWorkers ==
    {StartedFirst} \cup
    { [w \in {"A"} |-> Activation(sph, FrontPoint)] :
        sph \in ShadedSpheres("state", SurfaceEnv) \cup ShadedSpheres("nil", SurfaceEnv)
                \cup {GrazedSphere} }
    \cup { [w \in Workers |-> IF w = "A" THEN Activation(pair[1], FrontPoint)
                              ELSE Activation(pair[2], pair[3])] :
             pair \in { Pair(bodies, "state", env, hitPoint) :
                          bodies \in SharingBodies,
                          env \in {SurfaceEnv},
                          hitPoint \in {SidePoint} }
                      \cup { Pair(bodies, "another", env, hitPoint) :
                               bodies \in OwnBodies,
                               env \in {SurfaceEnv, OtherSurfaceEnv},
                               hitPoint \in {FrontPoint, SidePoint} } }

\* the EvalStates and the maps when the workers start
InitialEvalStates ==
    [e \in EvalStates |->
        [Stack |-> NilSlice, Env |-> EntryEnv(e), CurrToken |-> NoToken]]
\* the program has bound c to a colour before it made the closures
ProgramEnv == SetBinding(EmptyEnv, "c", Point(One, Zero, Zero))
InitialEnvMaps == <<ProgramEnv, ProgramEnv, ProgramEnv, ProgramEnv>>

\* the value of the k-th Push of computeSphereSurface: face, u and v
Input(a, k) ==
    CASE k = 1 -> VInt(0)
      [] k = 2 -> VReal(UCoordinate(a.point))
      [] k = 3 -> VReal(VCoordinate(a.point))

\* a slice and the heap of the arrays it may point to
Sliced(s, heap) == [slice |-> s, heap |-> heap]

\* append(s, value) by worker w, and the heap after it
Appended(w, s, value, heap) ==
    IF s.len < s.cap
    THEN Sliced(Slice(s.arr, s.len + 1, s.cap),
                [heap EXCEPT ![s.arr[1]][s.arr[2]][s.len + 1] = value])
    ELSE Sliced(Slice(<<w, Len(heap[w]) + 1>>, s.len + 1, GrownCap(s.cap)),
                [heap EXCEPT ![w] = Append(@, Grown(s, value, heap))])

\* the stack and the heap after worker w, with the activation a, has made
\* the three pushes of computeSphereSurface on the nil stack, no other
\* worker taking a step
PushedAlone(w, a) ==
    With(Appended(w, NilSlice, Input(a, 1), [o \in Workers |-> <<>>]),
         LAMBDA face :
            With(Appended(w, face.slice, Input(a, 2), face.heap),
                 LAMBDA u : Appended(w, u.slice, Input(a, 3), u.heap)))

\* the stack of the EvalState "state" and the heap when the workers are as
\* given: nil and empty, or as the pushes of worker B left them
StartOf(started) ==
    IF started = StartedFirst THEN PushedAlone("B", StartedFirst["B"])
    ELSE Sliced(NilSlice, [w \in Workers |-> <<>>])

ShaderInit ==
    /\ workers \in InitialWorkers
    /\ evalStates = [InitialEvalStates EXCEPT !["state"].Stack = StartOf(workers).slice]
    /\ arrays = StartOf(workers).heap
    /\ envMaps = InitialEnvMaps
    /\ EvalIdle
    /\ RenderIdle
    /\ LexIdle
    /\ GmlIdle
    /\ SsimIdle

\* worker w is at pc
At(w, pc) == w \in DOMAIN workers /\ workers[w].pc = pc

\* sphere.EvalState of worker w, and what it points to
StateOf(w) == workers[w].sphere.EvalState
Shared(w) == evalStates[StateOf(w)]

\* the values on the stack of the EvalState e
StackOf(e) == Elements(evalStates[e].Stack, arrays)

\* sphere.SurfaceFn of worker w
SurfaceFn(w) == workers[w].sphere.SurfaceFn

\* worker w returns material and e; the deferred function is still to run
\* when the activation has set oldEnv
SurfaceReturns(w, material, e, pc) ==
    workers' = [workers EXCEPT ![w].material = material, ![w].err = e, ![w].pc = pc]

\* worker w goes on as the activation a
Becomes(w, a) == workers' = [workers EXCEPT ![w] = a]

\* the activation without the locals of a call that has returned
Cleared(a) == [a EXCEPT !.val = NilValue, !.seen = NilSlice, !.map = 0]

\* the activation returns the error e; the deferred function is still to run
Failed(a, e) ==
    [Cleared(a) EXCEPT !.material = NoMaterial, !.err = e, !.pc = "return"]

\* the activation panics; the deferred function is still to run
Panics(a, e) == [Failed(a, e) EXCEPT !.pc = "panic"]

\* the activation calls pop for `caller`
Pops(a, caller, k) == [Cleared(a) EXCEPT !.pc = "pop", !.caller = caller, !.k = k]

\* the activation calls push(value) for `caller`
Pushes(a, caller, value) ==
    [Cleared(a) EXCEPT !.pc = "push", !.caller = caller, !.val = value]

\* evalOneStep has returned nil: the loop of Eval goes to the next token, or
\* Eval returns nil and Pop3 is called
TokenDone(a) ==
    IF a.i >= Len(a.sphere.SurfaceFn.Code)
    THEN [Pops(a, "popValue", 1) EXCEPT !.i = Len(a.sphere.SurfaceFn.Code) + 1]
    ELSE [Cleared(a) EXCEPT !.i = @ + 1, !.pc = "token"]

\* if sphere.SurfaceFn == nil { return &sphere.Material, nil }
SurfaceFnNil(w) ==
    /\ At(w, "start")
    /\ SurfaceFn(w).t = "nil"
    /\ SurfaceReturns(w, workers[w].sphere.Material, "none", "done")
    /\ UNCHANGED <<evalStates, arrays, envMaps, vars, rvars, lvars, gvars, qvars>>

\* if sphere.EvalState == nil { return nil, error }
EvalStateNil(w) ==
    /\ At(w, "start")
    /\ SurfaceFn(w).t # "nil"
    /\ StateOf(w) = "nil"
    /\ SurfaceReturns(w, NoMaterial, "NoEvalState", "done")
    /\ UNCHANGED <<evalStates, arrays, envMaps, vars, rvars, lvars, gvars, qvars>>

\* Push and push: e.Stack = append(e.Stack, value), the read of the slice
\* e.Stack.  The first of them is sphere.EvalState.Push(gml.VInt(0)).
Push(w) ==
    /\ \/ At(w, "push")
       \/ At(w, "start") /\ SurfaceFn(w).t # "nil" /\ StateOf(w) # "nil"
    /\ Becomes(w, IF workers[w].pc = "start"
                  THEN [workers[w] EXCEPT !.pc = "append", !.k = 1,
                                          !.val = Input(workers[w], 1),
                                          !.seen = Shared(w).Stack]
                  ELSE [workers[w] EXCEPT !.pc = "append", !.seen = Shared(w).Stack])
    /\ UNCHANGED <<evalStates, arrays, envMaps, vars, rvars, lvars, gvars, qvars>>

\* e.Stack = append(e.Stack, value), the call of append with the slice that
\* was read: where it has room the value is written into its backing array,
\* which every slice that points to it shares, and else into a new array
\* that has the elements of the slice before it
PushAppend(w) ==
    /\ At(w, "append")
    /\ \E appended \in {Appended(w, workers[w].seen, workers[w].val, arrays)} :
          /\ arrays' = appended.heap
          /\ Becomes(w, [workers[w] EXCEPT !.seen = appended.slice, !.pc = "store"])
    /\ UNCHANGED <<evalStates, envMaps, vars, rvars, lvars, gvars, qvars>>

\* e.Stack = append(e.Stack, value), the write of e.Stack: the slice append
\* returned.  computeSphereSurface then calls Push for u and for v;
\* evalOneStep returns nil.
PushStore(w) ==
    /\ At(w, "store")
    /\ evalStates' = [evalStates EXCEPT ![StateOf(w)].Stack = workers[w].seen]
    /\ Becomes(w, IF workers[w].caller = "evalOneStep" THEN TokenDone(workers[w])
                  ELSE IF workers[w].k < 3
                  THEN [Pushes(workers[w], "computeSphereSurface",
                               Input(workers[w], workers[w].k + 1))
                          EXCEPT !.k = @ + 1]
                  ELSE [Cleared(workers[w]) EXCEPT !.pc = "oldEnv"])
    /\ UNCHANGED <<arrays, envMaps, vars, rvars, lvars, gvars, qvars>>

\* oldEnv := sphere.EvalState.Env
ReadOldEnv(w) ==
    /\ At(w, "oldEnv")
    /\ Becomes(w, [workers[w] EXCEPT !.oldEnv = Shared(w).Env, !.pc = "setEnv"])
    /\ UNCHANGED <<evalStates, arrays, envMaps, vars, rvars, lvars, gvars, qvars>>

\* sphere.EvalState.Env = sphere.SurfaceFn.Env and the call of Eval, which
\* returns at once for an empty body
SwapEnv(w) ==
    /\ At(w, "setEnv")
    /\ evalStates' = [evalStates EXCEPT ![StateOf(w)].Env = SurfaceFn(w).Env]
    /\ Becomes(w, TokenDone([workers[w] EXCEPT !.i = 0]))
    /\ UNCHANGED <<arrays, envMaps, vars, rvars, lvars, gvars, qvars>>

\* evalOneStep(token): e.CurrToken = token, and the switch on the token: a
\* literal is pushed, a Binder pops, an Identifier that is no builtin is
\* looked up
EvalToken(w) ==
    /\ At(w, "token")
    /\ \E tk \in {SurfaceFn(w).Code[workers[w].i]} :
          /\ evalStates' = [evalStates EXCEPT ![StateOf(w)].CurrToken = tk]
          /\ Becomes(w,
               CASE tk.k = "FloatLiteral" -> Pushes(workers[w], "evalOneStep", VReal(tk.n))
                 [] tk.k = "IntLiteral" -> Pushes(workers[w], "evalOneStep", VInt(tk.n))
                 [] tk.k = "Binder" -> Pops(workers[w], "evalOneStep", 0)
                 [] tk.k = "Identifier" /\ ~IsBuiltin(tk.Name) ->
                      [workers[w] EXCEPT !.pc = "lookup"])
    /\ UNCHANGED <<arrays, envMaps, vars, rvars, lvars, gvars, qvars>>

\* pop: if len(e.Stack) == 0 { return nil, ErrEmptyStack }
PopCheck(w) ==
    /\ At(w, "pop")
    /\ Becomes(w, IF Shared(w).Stack.len = 0 THEN Failed(workers[w], "EmptyStack")
                  ELSE [workers[w] EXCEPT !.pc = "top"])
    /\ UNCHANGED <<evalStates, arrays, envMaps, vars, rvars, lvars, gvars, qvars>>

\* pop: val := e.Stack[len(e.Stack)-1], which panics when the stack has been
\* emptied since the test
PopTop(w) ==
    /\ At(w, "top")
    /\ Becomes(w, IF Shared(w).Stack.len = 0
                  THEN Panics(workers[w], "IndexOutOfRange")
                  ELSE [workers[w] EXCEPT
                          !.val = Backing(Shared(w).Stack, arrays)[Shared(w).Stack.len],
                          !.pc = "slice"])
    /\ UNCHANGED <<evalStates, arrays, envMaps, vars, rvars, lvars, gvars, qvars>>

\* pop: e.Stack = e.Stack[:len(e.Stack)-1], the read of e.Stack
PopSlice(w) ==
    /\ At(w, "slice")
    /\ Becomes(w, IF Shared(w).Stack.len = 0
                  THEN Panics(workers[w], "SliceBoundsOutOfRange")
                  ELSE [workers[w] EXCEPT !.seen = Shared(w).Stack, !.pc = "shrink"])
    /\ UNCHANGED <<evalStates, arrays, envMaps, vars, rvars, lvars, gvars, qvars>>

\* the Material computeSphereSurface makes of what Pop3 and PopValue returned
MaterialFrom(popped) ==
    Material(pointToVec3(popped[4]), Zero, Zero, Zero,
             popped[3].n, popped[2].n, popped[1].n)

\* pop: e.Stack = e.Stack[:len(e.Stack)-1], the write of e.Stack, a slice
\* of the array of the slice that was read, and the return of pop.  evalOneStep goes on to bind the value; popValue tests its
\* type: Pop3 wants three VReal and PopValue a Point, and after the fourth
\* computeSphereSurface returns the Material.
PopShrink(w) ==
    /\ At(w, "shrink")
    /\ evalStates' = [evalStates EXCEPT
                        ![StateOf(w)].Stack =
                            Slice(workers[w].seen.arr, workers[w].seen.len - 1,
                                  workers[w].seen.cap)]
    /\ Becomes(w,
         IF workers[w].caller = "evalOneStep"
         THEN [workers[w] EXCEPT !.seen = NilSlice, !.pc = "bind"]
         ELSE IF ~HasType(workers[w].val, IF workers[w].k = 4 THEN "Point" ELSE "VReal")
         THEN Failed(workers[w], "TypeMismatch")
         ELSE IF workers[w].k < 4
         THEN [Pops(workers[w], "popValue", workers[w].k + 1)
                 EXCEPT !.popped = Append(@, workers[w].val)]
         ELSE [Cleared(workers[w]) EXCEPT
                 !.popped = Append(@, workers[w].val),
                 !.material = MaterialFrom(Append(workers[w].popped, workers[w].val)),
                 !.pc = "return"])
    /\ UNCHANGED <<arrays, envMaps, vars, rvars, lvars, gvars, qvars>>

\* the map worker w is assigning to
Assigning(w) == IF At(w, "assign") THEN workers[w].map ELSE 0

\* e.Env[token.Name] = v, the read of e.Env and the start of the assignment
\* to the map
BindBegin(w) ==
    /\ At(w, "bind")
    /\ Becomes(w, [workers[w] EXCEPT !.map = Shared(w).Env, !.pc = "assign"])
    /\ UNCHANGED <<evalStates, arrays, envMaps, vars, rvars, lvars, gvars, qvars>>

\* e.Env[token.Name] = v, the end of the assignment: the map has the binding
Bind(w) ==
    /\ At(w, "assign")
    /\ envMaps' = [envMaps EXCEPT
                     ![workers[w].map] =
                         SetBinding(@, SurfaceFn(w).Code[workers[w].i].Name,
                                    workers[w].val)]
    /\ Becomes(w, TokenDone(workers[w]))
    /\ UNCHANGED <<evalStates, arrays, vars, rvars, lvars, gvars, qvars>>

\* val, ok := e.Env[token.Name] and push(val), or the error
Lookup(w) ==
    /\ At(w, "lookup")
    /\ \E name \in {SurfaceFn(w).Code[workers[w].i].Name} :
          Becomes(w, IF name \in DOMAIN envMaps[Shared(w).Env]
                     THEN Pushes(workers[w], "evalOneStep",
                                 envMaps[Shared(w).Env][name])
                     ELSE Failed(workers[w], "UnboundIdentifier"))
    /\ UNCHANGED <<evalStates, arrays, envMaps, vars, rvars, lvars, gvars, qvars>>

\* every worker is stopped with the program
Stopped(w, e) ==
    [o \in DOMAIN workers |->
        IF o = w THEN [Cleared(workers[o]) EXCEPT !.pc = "fatal", !.err = e]
        ELSE [Cleared(workers[o]) EXCEPT !.pc = "fatal"]]

\* worker w assigns to a map while another worker assigns to it or reads
\* it: the runtime may see it and end the program (fatal error: concurrent
\* map writes, or concurrent map read and map write)
MapFault(w) ==
    /\ At(w, "assign")
    /\ \E o \in DOMAIN workers \ {w} :
          \/ Assigning(o) = workers[w].map
          \/ At(o, "lookup") /\ Shared(o).Env = workers[w].map
    /\ workers' = Stopped(w, "ConcurrentMapAccess")
    /\ UNCHANGED <<evalStates, arrays, envMaps, vars, rvars, lvars, gvars, qvars>>

\* the panic of worker w runs its deferred function and ends the program
Panic(w) ==
    /\ At(w, "panic")
    /\ evalStates' = [evalStates EXCEPT ![StateOf(w)].Env = workers[w].oldEnv]
    /\ workers' = Stopped(w, workers[w].err)
    /\ UNCHANGED <<arrays, envMaps, vars, rvars, lvars, gvars, qvars>>

\* a computeSphereSurface whose deferred function runs only when no error is
\* returned
RestoreEnvOnSuccess(w) ==
    /\ At(w, "return")
    /\ evalStates' = IF workers[w].err = "none"
                     THEN [evalStates EXCEPT ![StateOf(w)].Env = workers[w].oldEnv]
                     ELSE evalStates
    /\ workers' = [workers EXCEPT ![w].pc = "done"]
    /\ UNCHANGED <<arrays, envMaps, vars, rvars, lvars, gvars, qvars>>

\* defer func() { sphere.EvalState.Env = oldEnv }()
RestoreEnv(w) ==
    /\ At(w, "return")
    /\ evalStates' = [evalStates EXCEPT ![StateOf(w)].Env = workers[w].oldEnv]
    /\ workers' = [workers EXCEPT ![w].pc = "done"]
    /\ UNCHANGED <<arrays, envMaps, vars, rvars, lvars, gvars, qvars>>

ShaderNext ==
    \E w \in Workers :
       \/ SurfaceFnNil(w)
       \/ EvalStateNil(w)
       \/ Push(w)
       \/ PushAppend(w)
       \/ PushStore(w)
       \/ ReadOldEnv(w)
       \/ SwapEnv(w)
       \/ EvalToken(w)
       \/ PopCheck(w)
       \/ PopTop(w)
       \/ PopSlice(w)
       \/ PopShrink(w)
       \/ BindBegin(w)
       \/ Bind(w)
       \/ Lookup(w)
       \/ MapFault(w)
       \/ Panic(w)
       \/ RestoreEnv(w)

ShaderSpec == ShaderInit /\ [][ShaderNext]_<<svars, gvars, qvars, vars, rvars, lvars>>

\* ---- C26: what a shader invocation does to the EvalState
\* the stack of an EvalState that has been used before: one value is on it,
\* and its backing array has room for three more
UsedStack == Slice(<<"A", 1>>, 1, 4)
UsedArrays ==
    [w \in Workers |->
        IF w = "A" THEN <<<<VInt(0), VReal(One), VReal(One), NilValue>>>> ELSE <<>>]

\* one invocation of computeSphereSurface at a time, as Render makes them:
\* for any of the spheres and either point, on an EvalState whose stack is
\* nil or has been used
InvocationInit ==
    /\ workers \in
          { [w \in {"A"} |-> Activation(sph, hitPoint)] :
              sph \in ShadedSpheres("state", SurfaceEnv)
                      \cup ShadedSpheres("nil", SurfaceEnv) \cup {GrazedSphere},
              hitPoint \in {FrontPoint, SidePoint} }
    /\ \E used \in BOOLEAN :
          /\ evalStates =
                IF used THEN [InitialEvalStates EXCEPT !["state"].Stack = UsedStack]
                ELSE InitialEvalStates
          /\ arrays = IF used THEN UsedArrays ELSE [w \in Workers |-> <<>>]
    /\ envMaps = InitialEnvMaps
    /\ EvalIdle
    /\ RenderIdle
    /\ LexIdle
    /\ GmlIdle
    /\ SsimIdle

InvocationNext ==
    \E w \in {"A"} :
       \/ SurfaceFnNil(w)
       \/ EvalStateNil(w)
       \/ Push(w)
       \/ PushAppend(w)
       \/ PushStore(w)
       \/ ReadOldEnv(w)
       \/ SwapEnv(w)
       \/ EvalToken(w)
       \/ PopCheck(w)
       \/ PopTop(w)
       \/ PopSlice(w)
       \/ PopShrink(w)
       \/ BindBegin(w)
       \/ Bind(w)
       \/ Lookup(w)
       \/ RestoreEnv(w)

InvocationSpec ==
    InvocationInit /\ [][InvocationNext]_<<svars, gvars, qvars, vars, rvars, lvars>>

\* no other worker works on the EvalState of worker w
Unshared(w) == \A o \in DOMAIN workers : o # w => StateOf(o) # StateOf(w)

\* worker w has a surface function to evaluate and an EvalState for it
Invokes(w) ==
    /\ w \in DOMAIN workers
    /\ SurfaceFn(w).t # "nil"
    /\ StateOf(w) # "nil"

\* the values n, below it ks, kd and colour make the Material
MaterialOf(colour, kd, ks, n, material) ==
    /\ n.t = "VReal" /\ ks.t = "VReal" /\ kd.t = "VReal" /\ colour.t = "Point"
    /\ material.SpecularExponent = n.n
    /\ material.Ks = ks.n
    /\ material.Kd = kd.n
    /\ material.Color = Vec3(colour.X, colour.Y, colour.Z)

\* no other worker has a closure over the map the closure of worker w
\* captured
OwnMap(w) ==
    \A o \in DOMAIN workers :
       o # w => (SurfaceFn(o).t = "nil" \/ SurfaceFn(o).Env # SurfaceFn(w).Env)

\* what computeSphereSurface of worker w returns and leaves when it is
\* called on the EvalState the workers start with
Alone(w) ==
    computeSphereSurfaceOn(workers[w].sphere, workers[w].point,
                           Evaluated(<<>>, InitialEnvMaps, NoToken))

\* the stacks hold the same values, of the same types
SameStack(stack, other) ==
    /\ Len(stack) = Len(other)
    /\ \A k \in DOMAIN stack : stack[k].t = other[k].t /\ stack[k] = other[k]

\* the activation is in Eval
InEval(a) ==
    \/ a.pc \in {"token", "lookup", "bind", "assign"}
    \/ a.pc \in {"push", "append", "store", "pop", "top", "slice", "shrink"}
          /\ a.caller = "evalOneStep"

\* the stack of the EvalState of worker w after the step
StackAfter(w) == Elements(evalStates'[StateOf(w)].Stack, arrays')

\* a step of the invocation of worker w, the stack of its EvalState being
\* `before` and then `after`
C26_Invocation(w, before, after) ==
    /\ (At(w, "store") /\ workers[w].caller = "computeSphereSurface") =>
          /\ workers[w].k \in 1..3
          /\ SameStack(after,
                       Append(before,
                              <<VInt(0),
                                VReal(UCoordinate(workers[w].point)),
                                VReal(VCoordinate(workers[w].point))>>[workers[w].k]))
          /\ workers'[w].pc = IF workers[w].k < 3 THEN "push" ELSE "oldEnv"
          /\ workers[w].k < 3 => workers'[w].k = workers[w].k + 1
    /\ InEval(workers'[w]) => evalStates'[StateOf(w)].Env = SurfaceFn(w).Env
    /\ (At(w, "lookup") /\ workers'[w].pc = "push") =>
          workers'[w].val =
             envMaps[SurfaceFn(w).Env][SurfaceFn(w).Code[workers[w].i].Name]
    /\ At(w, "store") => SameStack(after, Append(before, workers[w].val))
    /\ At(w, "shrink") => SameStack(before, Append(after, workers[w].val))
    /\ At(w, "assign") =>
          envMaps' = [envMaps EXCEPT
                        ![SurfaceFn(w).Env] =
                            SetBinding(@, SurfaceFn(w).Code[workers[w].i].Name,
                                       workers[w].val)]
    /\ (At(w, "shrink") /\ workers'[w].pc = "return" /\ workers'[w].err = "none") =>
          /\ Len(workers'[w].popped) = 4
          /\ MaterialOf(workers'[w].popped[4], workers'[w].popped[3],
                        workers'[w].popped[2], workers'[w].popped[1],
                        workers'[w].material)
    /\ workers'[w].pc = "done" =>
          evalStates'[StateOf(w)].Env = EntryEnv(StateOf(w))

C26_Step ==
    \A w \in DOMAIN workers :
       (Invokes(w) /\ workers'[w] # workers[w]) =>
          C26_Invocation(w, StackOf(StateOf(w)), StackAfter(w))

\* C26: a shader invocation pushes face = 0, then u, then v on the stack of
\* the EvalState; it evaluates the body with the closure's captured
\* environment as e.Env: an identifier is looked up and a binder binds the
\* value it popped in that map; every push puts its value on the top of the
\* stack and every pop takes the top; when Eval succeeded the values
\* popped, three Reals, the first the specular exponent, then ks, then kd,
\* and below them a Point, the colour, make the Material; and when the
\* invocation has returned, with a Material or with an error, e.Env is the
\* environment that was active before it.
C26_ShaderInvocation == [][C26_Step]_<<svars, gvars, qvars, vars, rvars, lvars>>

\* the invocation has returned a Material made of the colour c and of u; it
\* has left face on the stack and u bound in the captured map, and the
\* EvalState has the environment it had before
C26_Witness ==
    /\ DOMAIN workers = {"A"}
    /\ At("A", "done")
    /\ Invokes("A")
    /\ SurfaceFn("A").Code = SurfaceByU
    /\ workers["A"].err = "none"
    /\ workers["A"].material.Color = Vec3(One, Zero, Zero)
    /\ workers["A"].material.Kd = Rat(1, 6)
    /\ workers["A"].material.SpecularExponent = Rat(1, 6)
    /\ SameStack(StackOf("state"), <<VInt(0)>>)
    /\ envMaps[SurfaceEnv]["u"] = VReal(Rat(1, 6))
    /\ evalStates["state"].Env = StateEnv

\* the invocation has returned the error of Eval, and the EvalState has the
\* environment it had before and the three inputs on its stack
InvocationFailed ==
    /\ DOMAIN workers = {"A"}
    /\ At("A", "done")
    /\ workers["A"].err = "UnboundIdentifier"
    /\ Len(StackOf("state")) = 3
    /\ evalStates["state"].Env = StateEnv

\* an invocation on an EvalState that no other worker uses, with a closure
\* over a map that no other worker has a closure over, returns and leaves
\* what the one call of computeSphereSurface does
InvocationAsComputed ==
    [][ \A w \in DOMAIN workers :
          (Invokes(w) /\ Unshared(w) /\ OwnMap(w)
             /\ ~At(w, "done") /\ workers'[w].pc = "done") =>
             /\ workers'[w].material = Alone(w).material
             /\ workers'[w].err = Alone(w).err
             /\ SameStack(StackAfter(w), Alone(w).es.Stack)
             /\ envMaps'[SurfaceFn(w).Env] = Alone(w).es.maps[SurfaceFn(w).Env]
      ]_<<svars, gvars, qvars, vars, rvars, lvars>>

\* ---- C28: two workers on one EvalState, and on an EvalState each
\* every worker has returned from computeSphereSurface
AllDone == \A w \in DOMAIN workers : workers[w].pc = "done"

\* there are two workers, on one EvalState or on one each
OneEvalState == DOMAIN workers = Workers /\ StateOf("A") = StateOf("B")
OwnEvalStates == DOMAIN workers = Workers /\ StateOf("A") # StateOf("B")

\* what the workers returned, and the Stack and the Env of the EvalStates
Outcome(returned, stacks, envs) ==
    [returned |-> returned, Stack |-> stacks, Env |-> envs]

\* the outcome the workers have reached
Reached ==
    Outcome([w \in Workers |-> <<workers[w].material, workers[w].err>>],
            [e \in EvalStates |-> StackOf(e)],
            [e \in EvalStates |-> evalStates[e].Env])

\* the outcome when `second` calls computeSphereSurface after the call of
\* `first` has returned what ra is
SequentiallyAfter(first, second, ra) ==
    \* rb: what the call of `second` returns then
    LET rb == computeSphereSurfaceOn(
                  workers[second].sphere, workers[second].point,
                  Evaluated(IF StateOf(first) = StateOf(second)
                            THEN ra.es.Stack ELSE <<>>,
                            ra.es.maps, NoToken))
    IN  Outcome([w \in Workers |-> IF w = first THEN <<ra.material, ra.err>>
                                   ELSE <<rb.material, rb.err>>],
                [e \in EvalStates |-> IF e = StateOf(second) THEN rb.es.Stack
                                      ELSE IF e = StateOf(first) THEN ra.es.Stack
                                      ELSE <<>>],
                [e \in EvalStates |-> EntryEnv(e)])

\* the outcome of the sequential execution in which `first` calls
\* computeSphereSurface and, when it has returned, `second` does
Sequentially(first, second) ==
    SequentiallyAfter(first, second,
                      computeSphereSurfaceOn(
                          workers[first].sphere, workers[first].point,
                          Evaluated(<<>>, InitialEnvMaps, NoToken)))

\* the outcomes are the same
SameOutcome(outcome, other) ==
    /\ outcome.returned = other.returned
    /\ outcome.Env = other.Env
    /\ \A e \in EvalStates : SameStack(outcome.Stack[e], other.Stack[e])

\* the program was ended by a panic or by a fault of the runtime
Crashed == \E w \in DOMAIN workers : workers[w].pc = "fatal"

\* the program was ended, which no sequential execution does; or both
\* workers have returned and no sequential execution gives what they
\* returned and left
NotSequential ==
    /\ DOMAIN workers = Workers
    /\ \/ Crashed
       \/ /\ AllDone
          /\ ~SameOutcome(Reached, Sequentially("A", "B"))
          /\ ~SameOutcome(Reached, Sequentially("B", "A"))

\* two workers on one EvalState: Pop3 of worker A, which finds two Reals
\* when it runs alone, has returned three Reals, one of them pushed by
\* worker B; both workers have returned, and the EvalState is left with the
\* environment of a closure as its active environment
C28_SharedInterference ==
    /\ OneEvalState
    /\ AllDone
    /\ NotSequential
    /\ SurfaceFn("A").Code = LeavesNothing
    /\ Len(workers["A"].popped) = 3
    /\ workers["A"].popped[3] = VReal(UCoordinate(workers["B"].point))
    /\ evalStates["state"].Env # StateEnv

\* two workers on one EvalState have both returned a type mismatch and
\* left the face one of them pushed on the stack
BothMismatchLeaveFace ==
    /\ OneEvalState
    /\ AllDone
    /\ \A w \in Workers : workers[w].err = "TypeMismatch"
    /\ SameStack(StackOf("state"), <<VInt(0)>>)
    /\ NotSequential

\* two workers on one EvalState: a pop of one of them found the stack
\* emptied after its test, and the panic ended the program
PopPanics ==
    /\ OneEvalState
    /\ \E w \in Workers : workers[w].pc = "fatal" /\ workers[w].err = "IndexOutOfRange"

\* two workers with an EvalState each assigned to the one map their
\* closures captured at the same time, and the runtime ended the program
ConcurrentMapWrites ==
    /\ OwnEvalStates
    /\ \E w \in Workers :
          workers[w].pc = "fatal" /\ workers[w].err = "ConcurrentMapAccess"

\* C28, for workers that own their EvalState: when each of two workers
\* evaluates its surface function on an EvalState of its own, they return
\* and leave what some sequential execution returns and leaves.
C28_OwnEvalStateIsolates == OwnEvalStates => ~NotSequential

\* two workers with an EvalState each and one closure: both have returned,
\* worker A a Material whose specular exponent is the u worker B bound in
\* the captured map
OwnStateObservesOther ==
    /\ OwnEvalStates
    /\ AllDone
    /\ NotSequential
    /\ workers["A"].err = "none"
    /\ workers["A"].material.Kd = Rat(1, 6)
    /\ workers["A"].material.SpecularExponent = Zero

\* two workers with an EvalState each whose surface functions are different
\* closures, with different captured environments, return and leave what a
\* sequential execution does
OwnClosuresIsolate ==
    (OwnEvalStates /\ SurfaceFn("A").Env # SurfaceFn("B").Env) => ~NotSequential

\* ---- C33: the stack of the EvalState across shader invocations
\* C33: every step of Render, and so every invocation of a surface function
\* made in it, leaves the value stack of the EvalState with the contents it
\* had before, after success and after failure alike.
C33_StackUnchanged == [][Stack' = Stack]_<<rvars, vars, lvars, svars, gvars, qvars>>

\* with a surface function that succeeds and consumes face, u and v the
\* stack is as before after the hit
ConsumingSurfaceKeepsStack ==
    (\E i \in DOMAIN given.Objects :
        given.Objects[i].SurfaceFn.t # "nil"
        /\ given.Objects[i].SurfaceFn.Code = ColourByV
        /\ given.Objects[i].EvalState # "nil") => Stack = <<>>

\* ---- C32: a builtin that fails
\* the types of the operands a builtin pops, in the order it pops them
OperandTypes(impl) ==
    CASE impl = "addi" -> <<"VInt", "VInt">>
      [] impl = "apply" -> <<"VClosure">>
      [] impl = "point" -> <<"VReal", "VReal", "VReal">>
      [] impl = "pointlight" -> <<"Point", "Point">>
      [] impl = "sphere" -> <<"VClosure">>
      [] impl = "translate" -> <<"VReal", "VReal", "VReal", "SceneObject">>
      [] impl = "union" -> <<"SceneObject", "SceneObject">>
      [] impl = "render" -> RenderOperands
      [] impl = "nil" -> <<>>

\* how many values leave the stack when operands of these types are popped
\* from its top: all of them, or those up to the first of a wrong type, that
\* one included, or those there are
RECURSIVE Removed(_, _)
Removed(stack, types) ==
    IF types = <<>> \/ stack = <<>> THEN 0
    ELSE IF ~HasType(stack[Len(stack)], Head(types)) THEN 1
    ELSE 1 + Removed(SubSeq(stack, 1, Len(stack) - 1), Tail(types))

\* evalOneStep is about to run a builtin
AtAnyBuiltin ==
    /\ AtToken("Identifier")
    /\ IsBuiltin(token.Name)

\* a step in which a builtin fails itself: the error is new and no Eval was
\* called
BuiltinFails ==
    /\ AtAnyBuiltin
    /\ err' # "none"
    /\ Len(frames') = Len(frames)

C32_Step ==
    BuiltinFails =>
       /\ Stack' = SubSeq(Stack, 1,
                          Len(Stack) - Removed(Stack, OperandTypes(builtins[token.Name])))
       /\ Env' = Env
       /\ maps' = maps

\* C32: when a builtin fails, the operands it popped before the failure, the
\* value of the wrong type included, stay removed from the stack and nothing
\* is pushed; the environment and its bindings are unchanged.
C32_FailingBuiltinKeepsPops == [][C32_Step]_<<vars, rvars, lvars, svars, gvars, qvars>>

\* render with no sink has failed after its eight operands, all of the
\* right types, were popped: the stack that held them is empty
C32_Witness ==
    /\ program = ProgRender
    /\ ~renderSet
    /\ err = "RenderNotSet"
    /\ CurrToken = Identifier("render")
    /\ Stack = <<>>
    /\ rendered = <<>>

\* the value that made translate fail, an integer where a scene object is
\* expected, is gone with the three reals above it
MismatchedOperandRemoved ==
    (program = ProgTranslateMismatch /\ err # "none") =>
        (err = "TypeMismatch" /\ Stack = <<>>)

\* ---- C35: an array literal that fails part-way
\* the Array case calls Eval on the elements
ArrayEntered ==
    /\ AtToken("Array")
    /\ Len(frames') = Len(frames) + 1

\* Eval returns an error to the Array case
ArrayFails ==
    /\ Returns("array")
    /\ err # "none"

C35_Step ==
    /\ ArrayEntered => frames'[Len(frames')].oldStack = Stack
    /\ ArrayFails =>
          /\ Stack' = top.oldStack
          /\ maps' = maps
          /\ Env' = Env
          /\ err' = err
    /\ (\E k \in DOMAIN frames : k \in DOMAIN frames' /\ frames[k].caller = "array") =>
          \A k \in DOMAIN frames :
             (k \in DOMAIN frames' /\ frames[k].caller = "array") =>
                 frames'[k].oldStack = frames[k].oldStack

\* C35: when Eval of the elements of an array literal returns an error, the
\* stack becomes what it was when the array literal was reached, with no
\* Array value and none of the elements on it, the error goes on, and the
\* environment keeps the bindings the binders inside the array have made.
C35_FailedArrayRestoresStack == [][C35_Step]_<<vars, rvars, lvars, svars, gvars, qvars>>

\* 1 [ 2 /x 3 addi ] 5 has failed in addi, with one operand only: the stack
\* holds the 1 it held before the array, and x is bound to 2
C35_Witness ==
    /\ program = ProgArrayBindFail
    /\ Returned
    /\ err = "EmptyStack"
    /\ Stack = <<VInt(1)>>
    /\ "x" \in DOMAIN maps[1]
    /\ maps[1]["x"] = VInt(2)

\* ---- C34: termination of Eval
\* the next step is one more nested call of Eval, at the depth up to which
\* the activations are explored
Exhausted ==
    /\ Len(frames) = MaxDepth
    /\ \/ AtToken("Array")
       \/ AtBuiltin("apply") /\ popValue(Stack, "VClosure").err = "none"

\* the evaluation has one thread and nothing it waits for: the activations of
\* Eval run on, one step after the other, until the outermost has returned
\* or the nesting is exhausted
EvalFairSpec ==
    Spec /\ ([]<>(Returned \/ Exhausted) \/ []<><<Next>>_<<vars, rvars, lvars, svars, gvars, qvars>>)

\* Eval of the program returns, with nil or with an error
EvalReturns == <>Returned

\* activation k of Eval runs the tokens that activation j runs, and began
\* with the stack, the environment and the maps that j began with
BeganAs(j, k) ==
    /\ frames[j].code = frames[k].code
    /\ frames[j].began = frames[k].began

\* C34: Eval of every program returns, with nil or with an error, after
\* finitely many steps: no activation of Eval is nested in an activation of
\* the same tokens that began with the same stack, environment and maps.
\* (The steps of an activation are determined by its tokens and by what it
\* began with: one that has come to itself again comes to itself without end.)
C34_NoActivationRepeats ==
    \A j, k \in DOMAIN frames : j < k => ~BeganAs(j, k)

\* the activations nest to the explored depth only in a program whose closure
\* applies itself again: every activation of { /c c c apply } finds on the
\* stack the closure it runs and applies it
OnlyDivergingNests == (Len(frames) = MaxDepth) => program = ProgDiverge

\* of the programs, only that one has an activation that comes to itself
\* again; the others return
OnlyDivergingRepeats == ~C34_NoActivationRepeats => program = ProgDiverge

\* ---- C39: termination of the loop over NextToken
\* l.pos when the k-th call of NextToken began
PosBefore(k) == IF k = 1 THEN 0 ELSE lexed[k - 1].to

\* the calls of NextToken made so far: one that returned no EOF token moved
\* l.pos forward, and after an EOF token nothing but EOF tokens came, which
\* left l.pos where it was
C39_Calls ==
    \A k \in DOMAIN lexed :
       /\ lexed[k].Type # "EOF" => lexed[k].to > PosBefore(k)
       /\ \A j \in 1..(k - 1) :
             lexed[j].Type = "EOF" =>
                lexed[k].Type = "EOF" /\ lexed[k].to = lexed[j].to
       /\ lexed[k].to <= Len(input) + 2
       /\ k <= Len(input) + 2

\* a call of NextToken returns: the token ends where the lexer stands
C39_Step ==
    lexed' # lexed =>
       /\ Len(lexed') = Len(lexed) + 1
       /\ lexed'[Len(lexed')].to = lexPos'

\* C39: a loop over NextToken gets the EOF token after finitely many calls,
\* and gets it again on a later call; every call that returns another token
\* moves the lexer forward by at least one byte.
C39_NextTokenReachesEOF ==
    /\ []C39_Calls
    /\ [][C39_Step]_<<lvars, vars, rvars, svars, gvars, qvars>>
    /\ (driver \in {"readAllTokens", "NextTokenAgain"}) =>
          <>(/\ lexPc = "done"
             /\ lexed[Len(lexed)].Type = "EOF"
             /\ driver = "NextTokenAgain" =>
                   Len(lexed) >= 2 /\ lexed[Len(lexed) - 1].Type = "EOF")

\* the input /- gave the Illegal token of a lone slash, the Integer token of
\* a lone sign, and the EOF token twice
C39_Witness ==
    /\ driver = "NextTokenAgain"
    /\ input = <<"/", "-">>
    /\ lexPc = "done"
    /\ [k \in DOMAIN lexed |-> lexed[k].Type] = <<"Illegal", "Int", "EOF", "EOF">>
    /\ lexed[2].Literal = <<"-">>

\* a string without its closing quote gave a String token that ends one
\* byte past the input, and the EOF token
UnterminatedString ==
    /\ driver = "readAllTokens"
    /\ input = <<"n", Quote, "q">>
    /\ lexPc = "done"
    /\ [k \in DOMAIN lexed |-> lexed[k].Type] = <<"Ident", "String", "EOF">>
    /\ lexed[2].to = 4

\* a comment that runs to the end of the input gave the EOF token
CommentToTheEnd ==
    /\ driver = "readAllTokens"
    /\ input = <<"n", "%", Quote, "q">>
    /\ lexPc = "done"
    /\ [k \in DOMAIN lexed |-> lexed[k].Type] = <<"Ident", "EOF">>
    /\ lexed[2].to = 4

\* ---- C31: the token list of Parse and the brackets of the input
\* the tokens NextToken has returned, without their places in the input
Tokens == [k \in DOMAIN lexed |-> LexerToken(lexed[k].Type, lexed[k].Literal)]

\* what strconv, or the prefix test of parseBinder, makes of a token that is
\* a group by itself
ValueOf(tok) ==
    CASE tok.Type = "Int" -> ParseInt(tok.Literal)
      [] tok.Type = "Float" -> ParseFloat(tok.Literal)
      [] tok.Type = "Boolean" -> ParseBool(tok.Literal)
      [] tok.Type = "Binder" ->
           IF tok.Literal # <<>> /\ tok.Literal[1] = "/"
           THEN Converted(Tail(tok.Literal), "none")
           ELSE Converted(<<>>, "binder must start with /")
      [] OTHER -> Converted(tok.Literal, "none")

\* the token is a number, a boolean or a binder parseSingleToken refuses
Malformed(tok) == ValueOf(tok).err # "none"

\* the tokens with each token that is a group by itself as that group
Grouped(toks) ==
    [k \in DOMAIN toks |->
        CASE toks[k].Type = "Ident" -> Identifier(toks[k].Literal)
          [] toks[k].Type = "String" -> StringLiteral(toks[k].Literal)
          [] toks[k].Type = "Int" -> IntLiteral(ValueOf(toks[k]).val)
          [] toks[k].Type = "Float" -> FloatLiteral(ValueOf(toks[k]).val)
          [] toks[k].Type = "Boolean" -> BoolLiteral(ValueOf(toks[k]).val)
          [] toks[k].Type = "Binder" -> Binder(ValueOf(toks[k]).val)
          [] OTHER -> toks[k]]

\* a token list written out: its braces and brackets as tokens around the
\* groups they hold
RECURSIVE Unparse(_)
Unparse(l) ==
    IF l = <<>> THEN <<>>
    ELSE LET g == Head(l)
             first ==
               CASE g.k = "Function" ->
                      <<LexerToken("LCurly", <<"{">>)>> \o Unparse(g.Body)
                         \o <<LexerToken("RCurly", <<"}">>)>>
                 [] g.k = "Array" ->
                      <<LexerToken("LBracket", <<"[">>)>> \o Unparse(g.Elements)
                         \o <<LexerToken("RBracket", <<"]">>)>>
                 [] OTHER -> <<g>>
         IN  first \o Unparse(Tail(l))

ClosingToken == [o \in {"LCurly", "LBracket"} |->
             IF o = "LCurly" THEN "RCurly" ELSE "RBracket"]

\* the openers that are not closed after the tokens toks, innermost last,
\* when `unclosed` were not closed before them; <<"bad">> from a closer that
\* closes no opener or the wrong one, and from an Illegal token, onwards
RECURSIVE Nesting(_, _)
Nesting(toks, unclosed) ==
    IF toks = <<>> \/ unclosed = <<"bad">> THEN unclosed
    ELSE LET type == Head(toks).Type IN
         Nesting(Tail(toks),
            CASE type \in DOMAIN ClosingToken -> Append(unclosed, type)
              [] type \in {"RCurly", "RBracket"} ->
                   IF unclosed # <<>> /\ ClosingToken[unclosed[Len(unclosed)]] = type
                   THEN SubSeq(unclosed, 1, Len(unclosed) - 1)
                   ELSE <<"bad">>
              [] type = "Illegal" -> <<"bad">>
              [] OTHER -> unclosed)

\* C31: Parse returns a token list only when the tokens ended with EOF and
\* the list, written out with its braces and brackets, is the tokens before
\* the EOF, each number, boolean, binder, identifier and string as the group
\* it stands for: every opener is closed by its own closer, properly nested,
\* and the Functions and Arrays of the list nest as the brackets do.  It
\* returns an error and no list when a closer closes no opener or the wrong
\* one, when a token is Illegal, and when an opener is not closed at the
\* EOF; every other error is that of a number strconv refuses.  The empty
\* input gives the empty list.
C31_ParseMirrorsBrackets ==
    (driver = "Parse" /\ parsed # <<>>) =>
       /\ parsed.err = "none" =>
             /\ Tokens[Len(Tokens)].Type = "EOF"
             /\ Nesting(Tokens, <<>>) = <<>>
             /\ \A k \in DOMAIN Tokens : ~Malformed(Tokens[k])
             /\ Unparse(parsed.list) = Grouped(SubSeq(Tokens, 1, Len(Tokens) - 1))
       /\ parsed.err # "none" =>
             /\ parsed.list = <<>>
             /\ \/ Nesting(Tokens, <<>>) # <<>>
                \/ \E k \in DOMAIN Tokens : Malformed(Tokens[k])
       /\ Nesting(Tokens, <<>>) = <<"bad">> => parsed.err # "none"
       /\ input = <<>> => parsed = Parsed(<<>>, "none")

\* Parse of [{}] has returned an Array that holds an empty Function
C31_Witness ==
    /\ driver = "Parse"
    /\ input = <<"[", "{", "}", "]">>
    /\ parsed = Parsed(<<Array(<<Function(<<>>)>>)>>, "none")

\* Parse of 1e1 has returned the Float 10
ParsedScientific ==
    /\ driver = "Parse"
    /\ input = <<"1", "e", "1">>
    /\ parsed = Parsed(<<FloatLiteral(10)>>, "none")

\* Parse of 1e999, of -1e999 and of 9e308, numbers larger than any float64,
\* has returned the error of parseFloatLiteral
ParsedBeyondRange ==
    /\ driver = "Parse"
    /\ input \in { <<"1", "e", "9", "9", "9">>, <<"-", "1", "e", "9", "9", "9">>,
                   <<"9", "e", "3", "0", "8">> }
    /\ parsed = Parsed(<<>>, "could not parse number")

\* Parse of 1e308 has returned the Float, and Parse of 1e-999 the Float 0
ParsedInRange ==
    /\ driver = "Parse"
    /\ \/ /\ input = <<"1", "e", "3", "0", "8">>
          /\ parsed = Parsed(<<FloatLiteral([decimal |-> <<1, 308>>])>>, "none")
       \/ /\ input = <<"1", "e", "-", "9", "9", "9">>
          /\ parsed = Parsed(<<FloatLiteral(0)>>, "none")

\* Parse of -.1 has returned the Float minus one tenth
ParsedFraction ==
    /\ driver = "Parse"
    /\ input = <<"-", ".", "1">>
    /\ parsed = Parsed(<<FloatLiteral(<<-1, 10>>)>>, "none")

\* Parse of -11 has returned the Int
ParsedInt ==
    /\ driver = "Parse"
    /\ input = <<"-", "1", "1">>
    /\ parsed = Parsed(<<IntLiteral(-11)>>, "none")

\* Parse of true has returned the boolean, and of /e and e a Binder and an
\* Identifier
ParsedBoolean ==
    /\ driver = "Parse"
    /\ input = <<"t", "r", "u", "e">>
    /\ parsed = Parsed(<<BoolLiteral(TRUE)>>, "none")

ParsedBinder ==
    /\ driver = "Parse"
    /\ input = <<"/", "e", Newline, "e">>
    /\ parsed = Parsed(<<Binder(<<"e">>), Identifier(<<"e">>)>>, "none")

\* Parse of a minus sign alone, and of 1e, has returned the error of strconv
ParsedNoNumber ==
    /\ driver = "Parse"
    /\ input \in {<<"-">>, <<"1", "e">>}
    /\ parsed = Parsed(<<>>, "could not parse number")
    /\ Nesting(Tokens, <<>>) = <<>>

\* Parse of [n} has returned an error at the brace
MismatchedCloser ==
    /\ driver = "Parse"
    /\ input = <<"[", "n", "}">>
    /\ parsed # <<>> /\ parsed.err = "expected RBracket"
    /\ curr.Type = "RCurly"

\* Parse of [{ has returned an error at the EOF token
UnclosedOpener ==
    /\ driver = "Parse"
    /\ input = <<"[", "{">>
    /\ parsed # <<>> /\ parsed.err = "expected RCurly"
    /\ curr.Type = "EOF"

\* =========================================================================
\* convertGMLSceneObjects (part_000): the spheres of the renderer for the
\* scene object `render` was given.  One iteration of its loop is one step.
\* =========================================================================
MaxNesting == 2   \* how deep the Unions of a scene object nest

\* two spheres of the scene language
LeafA == Sphere(Point(0, 0, 1), 1, VClosure(<<>>, 1))
LeafB == Sphere(Point(1, 0, 2), 2, VClosure(<<IntLiteral(1)>>, 1))

\* the scene objects whose Unions nest n deep at most: the two spheres, a
\* nil SceneObject, and the Unions `union` builds of two objects
RECURSIVE SceneObjects(_)
SceneObjects(n) ==
    IF n = 0 THEN {LeafA, LeafB, NilValue}
    ELSE LET below == SceneObjects(n - 1)
         IN  below \cup { Union(<<a, b>>) : a \in below, b \in below }

\* convertGMLSceneObjects([]gml.SceneObject{args.Scene}, state) was called
ConvertInit ==
    /\ sceneObjects \in { <<o>> : o \in SceneObjects(MaxNesting) }
    /\ toVisit = sceneObjects
    /\ converted = <<>>
    /\ convPc = "loop"
    /\ convErr = "none"
    /\ gmlPc = "idle"
    /\ gmlResult = <<>>
    /\ renderedImage = NilImage
    /\ EvalIdle
    /\ RenderIdle
    /\ LexIdle
    /\ ShaderIdle
    /\ SsimIdle

\* the loop has taken toVisit[0]
Visiting(type) ==
    /\ convPc = "loop"
    /\ toVisit # <<>>
    /\ Head(toVisit).t = type

\* a case *gml.Union that goes on with the first child only
ConvertUnionFirstChild ==
    /\ Visiting("Union")
    /\ toVisit' = Tail(toVisit) \o SubSeq(Head(toVisit).Objects, 1, 1)
    /\ UNCHANGED <<sceneObjects, converted, convPc, convErr, gmlPc, gmlResult, renderedImage,
                   vars, rvars, lvars, svars, qvars>>

\* case *gml.Union
ConvertUnion ==
    /\ Visiting("Union")
    /\ toVisit' = Tail(toVisit) \o Head(toVisit).Objects
    /\ UNCHANGED <<sceneObjects, converted, convPc, convErr, gmlPc, gmlResult, renderedImage,
                   vars, rvars, lvars, svars, qvars>>

\* pointToVec3 of a Point of the evaluator above, which holds the float64
\* coordinates as whole numbers where the renderer holds fractions
WholeToVec3(p) == Vec3(FromInt(p.X), FromInt(p.Y), FromInt(p.Z))

\* case *gml.Sphere: a new *Sphere of the renderer
ConvertSphere ==
    /\ Visiting("Sphere")
    /\ toVisit' = Tail(toVisit)
    /\ converted' =
          Append(converted,
                 SurfaceSphere(Len(converted) + 1, WholeToVec3(Head(toVisit).Center),
                               FromInt(Head(toVisit).Radius),
                               Head(toVisit).SurfaceFn, "state"))
    /\ UNCHANGED <<sceneObjects, convPc, convErr, gmlPc, gmlResult, renderedImage,
                   vars, rvars, lvars, svars, qvars>>

\* default: the error and a nil list
ConvertUnknown ==
    /\ convPc = "loop"
    /\ toVisit # <<>>
    /\ Head(toVisit).t \notin {"Sphere", "Union"}
    /\ toVisit' = Tail(toVisit)
    /\ converted' = <<>>
    /\ convErr' = "unknown scene object type"
    /\ convPc' = "done"
    /\ UNCHANGED <<sceneObjects, gmlPc, gmlResult, renderedImage, vars, rvars, lvars, svars, qvars>>

\* the loop is over: the list and a nil error
ConvertReturn ==
    /\ convPc = "loop"
    /\ toVisit = <<>>
    /\ convPc' = "done"
    /\ UNCHANGED <<sceneObjects, toVisit, converted, convErr, gmlPc, gmlResult, renderedImage,
                   vars, rvars, lvars, svars, qvars>>

ConvertNext ==
    \/ ConvertUnion
    \/ ConvertSphere
    \/ ConvertUnknown
    \/ ConvertReturn

ConvertSpec == ConvertInit /\ [][ConvertNext]_<<gvars, vars, rvars, lvars, svars, qvars>>

ConvertDone == convPc = "done"

\* the function runs on the goroutine of its caller until it returns
ConvertFairSpec ==
    ConvertSpec
      /\ ([]<>ConvertDone \/ []<><<ConvertNext>>_<<gvars, vars, rvars, lvars, svars, qvars>>)

\* ---- C36: one sphere of the renderer for every leaf
\* how often the sphere s is a leaf of the object o
RECURSIVE Occurrences(_, _)
Occurrences(s, o) ==
    IF o.t = "Union"
    THEN Occurrences(s, o.Objects[1]) + Occurrences(s, o.Objects[2])
    ELSE IF o = s THEN 1 ELSE 0

\* the spheres of the renderer made of the sphere s
ConvertedFrom(s) ==
    { i \in DOMAIN converted :
         /\ converted[i].Center = WholeToVec3(s.Center)
         /\ converted[i].Radius = FromInt(s.Radius)
         /\ converted[i].SurfaceFn = s.SurfaceFn }

C36_Returned ==
    ConvertDone =>
       IF Occurrences(NilValue, sceneObjects[1]) > 0
       THEN convErr # "none" /\ converted = <<>>
       ELSE /\ convErr = "none"
            /\ \A s \in {LeafA, LeafB} :
                  Cardinality(ConvertedFrom(s)) = Occurrences(s, sceneObjects[1])
            /\ Len(converted) =
                  Occurrences(LeafA, sceneObjects[1]) + Occurrences(LeafB, sceneObjects[1])
            /\ \A i \in DOMAIN converted :
                  /\ converted[i].EvalState = "state"
                  /\ \A j \in DOMAIN converted : i # j => converted[i].Ptr # converted[j].Ptr

\* C36: convertGMLSceneObjects returns for every object; it returns one sphere
\* of the renderer for every leaf Sphere under any nesting of Unions, as often
\* as the leaf occurs and no other, with the centre, the radius and the
\* surface function of the leaf and all with the one EvalState; for an object
\* that holds something that is neither Sphere nor Union it returns an error
\* and no list.
C36_OneSpherePerLeaf == []C36_Returned /\ <>ConvertDone

\* the spheres of ((A B) A): three, two of them made of A
C36_Witness ==
    /\ ConvertDone
    /\ sceneObjects = <<Union(<<Union(<<LeafA, LeafB>>), LeafA>>)>>
    /\ convErr = "none"
    /\ Len(converted) = 3
    /\ Cardinality(ConvertedFrom(LeafA)) = 2

\* (A nil) has given an error after the sphere of A was made
UnknownAfterSphere ==
    /\ ConvertDone
    /\ sceneObjects = <<Union(<<LeafA, NilValue>>)>>
    /\ convErr # "none"
    /\ converted = <<>>
    /\ toVisit = <<>>

\* =========================================================================
\* ParseAndRenderGML (part_000): gml.Parse, then Eval on a new EvalState
\* whose Render keeps the image of the Scene it is given.  What gml.Parse
\* returns is the state this begins in; Eval is the evaluator above.
\* =========================================================================
\* the sizes the programs ask for
Sides == {-1, 0, 2}

\* 5.0 6.0 7.0 point [ ] { } sphere 4 90.0 w h "a.ppm" render
RenderOf(w, h) ==
    <<FloatLiteral(5), FloatLiteral(6), FloatLiteral(7), Identifier("point"),
      Array(<<>>), Function(<<>>), Identifier("sphere"),
      IntLiteral(4), FloatLiteral(90), IntLiteral(w), IntLiteral(h),
      StringLiteral("a.ppm"), Identifier("render")>>

\* 1.0 1.0 1.0 point [ ] { body } sphere 0.0 0.0 3.0 translate
\* 1 90.0 2 2 "a.ppm" render: a sphere in front of the camera
FrontOf(body) ==
    <<FloatLiteral(1), FloatLiteral(1), FloatLiteral(1), Identifier("point"),
      Array(<<>>), Function(body), Identifier("sphere"),
      FloatLiteral(0), FloatLiteral(0), FloatLiteral(3), Identifier("translate"),
      IntLiteral(1), FloatLiteral(90), IntLiteral(2), IntLiteral(2),
      StringLiteral("a.ppm"), Identifier("render")>>

\* the same with ... translate { } sphere union: the sphere in front of the
\* camera and one around it
FrontUnion(body) ==
    SubSeq(FrontOf(body), 1, 11)
       \o <<Function(<<>>), Identifier("sphere"), Identifier("union")>>
       \o SubSeq(FrontOf(body), 12, 17)

\* programs that render once, twice, and once before or after an unbound
\* identifier; programs whose sphere is met by the rays, with a surface
\* function that gives a Material and one that leaves an integer, alone and
\* followed by a binder or by a second render
RenderPrograms ==
    { RenderOf(w, h) : w \in Sides, h \in Sides }
    \cup { RenderOf(w, h) \o RenderOf(v, g) : w \in Sides, h \in Sides,
                                               v \in Sides, g \in Sides }
    \cup { RenderOf(w, h) \o <<Identifier("x")>> : w \in Sides, h \in Sides }
    \cup { <<Identifier("x")>> \o RenderOf(w, h) : w \in Sides, h \in Sides }
    \cup { FrontOf(body) \o rest :
              body \in {ColourByV, <<Lit1>>},
              rest \in {<<>>, <<Binder("x")>>, RenderOf(2, 0)} }
    \cup { FrontUnion(body) : body \in {ColourByV, <<Lit1>>} }

\* the image Render returned to the call-th call of state.Render
ImageOf(call) ==
    [call |-> call,
     Bounds |-> Rect(0, 0, rendered[call].Width, rendered[call].Height)]

\* gml.Parse(programText) has returned
GmlInit ==
    /\ gmlPc = "Parse"
    /\ gmlResult = <<>>
    /\ renderedImage = NilImage
    /\ parsed \in {Parsed(<<>>, "unexpected token")}
                     \cup { Parsed(p, "none") : p \in Programs \cup RenderPrograms }
    /\ input = <<>>
    /\ lexPos = 0
    /\ readPos = 0
    /\ ch = ""
    /\ lexPc = "idle"
    /\ from = 0
    /\ sb = <<>>
    /\ strErr = FALSE
    /\ lexed = <<>>
    /\ driver = "none"
    /\ curr = ZeroToken
    /\ open = <<>>
    /\ EvalIdle
    /\ sceneObjects = <<>>
    /\ toVisit = <<>>
    /\ converted = <<>>
    /\ convPc = "idle"
    /\ convErr = "none"
    /\ RenderIdle
    /\ ShaderIdle
    /\ SsimIdle

\* what ParseAndRenderGML returns
Rendered(image, e) == [image |-> image, err |-> e]

\* if err != nil { return nil, err } after gml.Parse
GmlParseError ==
    /\ gmlPc = "Parse"
    /\ parsed.err # "none"
    /\ gmlResult' = Rendered(NilImage, parsed.err)
    /\ gmlPc' = "done"
    /\ UNCHANGED <<renderedImage, sceneObjects, toVisit, converted, convPc, convErr,
                   vars, rvars, lvars, svars, qvars>>

\* NewEvalState, state.Render is set, state.Eval(token) is called
GmlEval ==
    /\ gmlPc = "Parse"
    /\ parsed.err = "none"
    /\ program' = parsed.list
    /\ renderSet' = TRUE
    /\ frames' = <<Frame("top", parsed.list, 0, <<>>, Config(Stack, Env, maps))>>
    /\ gmlPc' = "Eval"
    /\ UNCHANGED <<Stack, Env, maps, CurrToken, err, rendered, gmlResult,
                   renderedImage, sceneObjects, toVisit, converted, convPc, convErr,
                   rvars, lvars, svars, qvars>>

\* convertGMLLights
convertGMLLights(lights) ==
    [i \in DOMAIN lights |->
        Light(WholeToVec3(lights[i].Position), WholeToVec3(lights[i].Color))]

\* the &Scene{...} literal of the function set as state.Render: the two
\* background colours are left zero
SceneFor(args, convertedObjects) ==
    Scene(args.Width, args.Height, FromInt(args.Fov), args.Depth,
          convertedObjects, convertGMLLights(args.Lights),
          WholeToVec3(args.AmbientLight), ZeroVec, ZeroVec)

\* convertGMLSceneObjects has returned to the function set as state.Render:
\* with an error, which that function returns and render drops, or with the
\* spheres of the Scene on which Render is called
GmlRender ==
    /\ gmlPc = "Render"
    /\ convPc = "done"
    /\ convPc' = "idle"
    /\ IF convErr # "none"
       THEN /\ gmlPc' = "Eval"
            /\ UNCHANGED rvars
       ELSE /\ gmlPc' = "Render"
            /\ \E sc \in {SceneFor(rendered[Len(rendered)], converted)} :
                  given' = sc /\ scene' = sc
            /\ renderPc' = "start"
            /\ recursionLimit' = 0
            /\ pixelX' = 0
            /\ pixelY' = 0
            /\ sampleNo' = 0
            /\ totalColor' = ZeroVec
            /\ img' = <<>>
            /\ calls' = <<>>
            /\ result' = Fresh(ZeroVec)
    /\ UNCHANGED <<gmlResult, renderedImage, sceneObjects, toVisit, converted,
                   convErr, vars, lvars, svars, qvars>>

\* a function that keeps the image of the first Render
GmlRenderedKeepsFirst ==
    /\ gmlPc = "Render"
    /\ renderPc = "done"
    /\ renderedImage' = IF renderedImage = NilImage
                        THEN ImageOf(Len(rendered)) ELSE renderedImage
    /\ renderPc' = "idle"
    /\ gmlPc' = "Eval"
    /\ UNCHANGED <<given, scene, recursionLimit, pixelX, pixelY, sampleNo,
                   totalColor, img, calls, result, gmlResult, sceneObjects,
                   toVisit, converted, convPc, convErr, vars, lvars, svars, qvars>>

\* renderedImage = Render(scene); return nil: render, and with it the step
\* of Eval, goes on
GmlRendered ==
    /\ gmlPc = "Render"
    /\ renderPc = "done"
    /\ renderedImage' = ImageOf(Len(rendered))
    /\ renderPc' = "idle"
    /\ gmlPc' = "Eval"
    /\ UNCHANGED <<given, scene, recursionLimit, pixelX, pixelY, sampleNo,
                   totalColor, img, calls, result, gmlResult, sceneObjects,
                   toVisit, converted, convPc, convErr, vars, lvars, svars, qvars>>

\* state.Eval has returned
GmlReturn ==
    /\ gmlPc = "Eval"
    /\ Returned
    /\ gmlResult' =
          IF err # "none" THEN Rendered(NilImage, err)
          ELSE IF renderedImage = NilImage \/ Empty(renderedImage.Bounds)
          THEN Rendered(NilImage, "no image was rendered by the GML program")
          ELSE Rendered(renderedImage, "none")
    /\ gmlPc' = "done"
    /\ UNCHANGED <<renderedImage, sceneObjects, toVisit, converted, convPc, convErr,
                   vars, rvars, lvars, svars, qvars>>

\* Eval, and inside its calls of state.Render the loop of
\* convertGMLSceneObjects, Render and traceRay.  The Material a surface
\* function gives has no reflectivity and no transparency, and the depth of
\* a primary ray is positive: of traceRay, the steps of a miss and of an
\* opaque hit.
GmlNext ==
    \/ GmlParseError
    \/ GmlEval
    \/ Next
    \/ ConvertUnion
    \/ ConvertSphere
    \/ ConvertReturn
    \/ GmlRender
    \/ RenderStart
    \/ RenderSample
    \/ RenderSetPixel
    \/ RenderReturn
    \/ TraceClosestHit
    \/ TraceMiss
    \/ TraceOpaque
    \/ GmlRendered
    \/ GmlReturn

GmlSpec == GmlInit /\ [][GmlNext]_<<gvars, vars, rvars, lvars, svars, qvars>>

\* ---- C37: what ParseAndRenderGML returns
GmlDone == gmlPc = "done"

\* an image and no error
GmlImage == gmlResult.image # NilImage /\ gmlResult.err = "none"

\* the calls of state.Render whose image is not empty
NonEmptyRenders == { k \in DOMAIN rendered : ~Empty(ImageOf(k).Bounds) }

\* the program was parsed and evaluated without an error
EvaluatedWell == parsed.err = "none" /\ err = "none"

\* the claim as stated: an image and no error exactly when the program was
\* parsed and evaluated without an error and some render gave a non-empty
\* image
C37_AsStated == GmlDone => (GmlImage <=> (EvaluatedWell /\ NonEmptyRenders # {}))

\* C37: ParseAndRenderGML returns an image and no error exactly when the
\* program was parsed and evaluated without an error and its last render gave
\* a non-empty image, and the image is that of the last render; it returns
\* the error of the parser and the error of the evaluation as they are, the
\* latter also after a render; and when nothing was rendered, or the last
\* image is empty, the error is that no image was rendered.  No image comes
\* with an error.
C37_LastRenderDecides ==
    GmlDone =>
       /\ GmlImage <=> (EvaluatedWell /\ Len(rendered) \in NonEmptyRenders)
       /\ GmlImage => gmlResult.image = ImageOf(Len(rendered))
       /\ ~GmlImage => gmlResult.image = NilImage /\ gmlResult.err # "none"
       /\ parsed.err # "none" => gmlResult.err = parsed.err /\ rendered = <<>>
       /\ (parsed.err = "none" /\ err # "none") => gmlResult.err = err
       /\ (EvaluatedWell /\ Len(rendered) \notin NonEmptyRenders) =>
             gmlResult.err = "no image was rendered by the GML program"

\* a program that rendered 2 x 2 and then -1 x 2 has returned the second image
C37_Witness ==
    /\ GmlDone
    /\ program = RenderOf(2, 2) \o RenderOf(-1, 2)
    /\ Len(rendered) = 2
    /\ gmlResult = Rendered([call |-> 2, Bounds |-> Rect(-1, 0, 0, 2)], "none")

\* a program that rendered 2 x 2 and then met an unbound identifier has
\* returned the error and no image
ErrorAfterRender ==
    /\ GmlDone
    /\ program = RenderOf(2, 2) \o <<Identifier("x")>>
    /\ Len(rendered) = 1
    /\ gmlResult = Rendered(NilImage, "UnboundIdentifier")

\* the surface function { 1 } has failed for the rays that met the sphere and
\* left face, u and v on the stack of the EvalState that runs the program:
\* the binder after render has found a value there
BinderAfterRenderBinds ==
    /\ GmlDone
    /\ program = FrontOf(<<Lit1>>) \o <<Binder("x")>>
    /\ gmlResult.err = "none"
    /\ gmlResult.image.Bounds = Rect(0, 0, 2, 2)
    /\ "x" \in DOMAIN maps[1]
    /\ Len(Stack) >= 2

\* no ray of the samples has met the sphere: the stack is empty after render
\* and the binder fails
BinderAfterRenderFails ==
    /\ GmlDone
    /\ program = FrontOf(<<Lit1>>) \o <<Binder("x")>>
    /\ gmlResult = Rendered(NilImage, "EmptyStack")

\* the surface function that gives a Material has coloured the pixel whose
\* rays met the sphere, and has left the stack as it was
SurfaceColoursPixel ==
    /\ GmlDone
    /\ program = FrontOf(ColourByV)
    /\ gmlResult.err = "none"
    /\ Stack = <<>>
    /\ img[<<1, 1>>] # <<ZeroVec>>
    /\ img[<<0, 0>>] = <<ZeroVec>>

\* =========================================================================
\* SSIM (part_004): the goroutine that starts one goroutine for every column
\* of windows and closes the channel, those goroutines, and the range loop
\* of SSIM over the channel.  A send on the unbuffered channel and the
\* receive that takes it are one step.
\* =========================================================================
MaxSide == 13   \* the largest width and height of the images

kernelSize == 11

\* the bounds of the two images: equal, or the second one column wider
ImageBounds ==
    { <<<<w, h>>, <<v, h>>>> :
         w \in (kernelSize - 1)..MaxSide, h \in (kernelSize - 1)..MaxSide,
         v \in (kernelSize - 1)..MaxSide }

Dx(b) == b[1]
Dy(b) == b[2]

\* SSIM(img1, img2) was called
SsimInit ==
    /\ bounds \in ImageBounds
    /\ ssimPc = "check"
    /\ spawnPc = "idle"
    /\ spawnX = 0
    /\ wg = 0
    /\ chClosed = FALSE
    /\ windows = <<>>
    /\ ssimN = 0
    /\ received = {}
    /\ ssimResult = <<>>
    /\ EvalIdle
    /\ RenderIdle
    /\ LexIdle
    /\ ShaderIdle
    /\ GmlIdle

\* what SSIM returns: the quotient sum / float64(n), which is NaN for n = 0,
\* and the error
Similarity(value, e) == [ssim |-> value, err |-> e]

\* the two checks of the bounds fail
SsimReject ==
    /\ ssimPc = "check"
    /\ bounds[1] # bounds[2] \/ Dx(bounds[1]) < kernelSize \/ Dy(bounds[1]) < kernelSize
    /\ ssimResult' = Similarity(0, IF bounds[1] # bounds[2]
                                   THEN "images are not the same size"
                                   ELSE "images are too small")
    /\ ssimPc' = "done"
    /\ UNCHANGED <<bounds, spawnPc, spawnX, wg, chClosed, windows, ssimN, received,
                   vars, rvars, lvars, svars, gvars>>

\* the checks pass: the channel is made, the goroutine is started and SSIM
\* enters its range loop
SsimStart ==
    /\ ssimPc = "check"
    /\ bounds[1] = bounds[2]
    /\ Dx(bounds[1]) >= kernelSize /\ Dy(bounds[1]) >= kernelSize
    /\ ssimPc' = "range"
    /\ spawnPc' = "loop"
    /\ UNCHANGED <<bounds, spawnX, wg, chClosed, windows, ssimN, received,
                   ssimResult, vars, rvars, lvars, svars, gvars>>

\* the goroutine of column x: where it is, its y and its n
Column(pc, y, n) == [pc |-> pc, y |-> y, n |-> n]

\* one iteration of the loop over x: wg.Add(1) and the go statement
Spawn ==
    /\ spawnPc = "loop"
    /\ spawnX < Dx(bounds[1]) - kernelSize
    /\ wg' = wg + 1
    /\ windows' = Append(windows, Column("loop", 0, 0))
    /\ spawnX' = spawnX + 1
    /\ UNCHANGED <<bounds, ssimPc, spawnPc, chClosed, ssimN, received, ssimResult,
                   vars, rvars, lvars, svars, gvars>>

\* the loop over x is over: wg.Wait() is called
SpawnWait ==
    /\ spawnPc = "loop"
    /\ spawnX >= Dx(bounds[1]) - kernelSize
    /\ spawnPc' = "Wait"
    /\ UNCHANGED <<bounds, ssimPc, spawnX, wg, chClosed, windows, ssimN, received,
                   ssimResult, vars, rvars, lvars, svars, gvars>>

\* wg.Wait() returns and the deferred close(ch) runs
WaitAndClose ==
    /\ spawnPc = "Wait"
    /\ wg = 0
    /\ chClosed' = TRUE
    /\ spawnPc' = "done"
    /\ UNCHANGED <<bounds, ssimPc, spawnX, wg, windows, ssimN, received, ssimResult,
                   vars, rvars, lvars, svars, gvars>>

\* the goroutine of column x (windows are counted from 1) is at pc
InColumn(x, pc) == x \in DOMAIN windows /\ windows[x].pc = pc

\* one iteration of the loop over y: computeSSIMOnWindow and n++
Window(x) ==
    /\ InColumn(x, "loop")
    /\ windows[x].y < Dy(bounds[1]) - kernelSize
    /\ windows' = [windows EXCEPT ![x].y = @ + 1, ![x].n = @ + 1]
    /\ UNCHANGED <<bounds, ssimPc, spawnPc, spawnX, wg, chClosed, ssimN, received,
                   ssimResult, vars, rvars, lvars, svars, gvars>>

\* the loop over y is over: the goroutine is at its send
WindowsDone(x) ==
    /\ InColumn(x, "loop")
    /\ windows[x].y >= Dy(bounds[1]) - kernelSize
    /\ windows' = [windows EXCEPT ![x].pc = "send"]
    /\ UNCHANGED <<bounds, ssimPc, spawnPc, spawnX, wg, chClosed, ssimN, received,
                   ssimResult, vars, rvars, lvars, svars, gvars>>

\* ch <- workitem{...} meets the range loop: n += item.n
Receive(x) ==
    /\ InColumn(x, "send")
    /\ ssimPc = "range"
    /\ ~chClosed
    /\ ssimN' = ssimN + windows[x].n
    /\ received' = received \cup {x}
    /\ windows' = [windows EXCEPT ![x].pc = "Done"]
    /\ UNCHANGED <<bounds, ssimPc, spawnPc, spawnX, wg, chClosed, ssimResult,
                   vars, rvars, lvars, svars, gvars>>

\* wg.Done(), the last statement of the goroutine
Done(x) ==
    /\ InColumn(x, "Done")
    /\ wg' = wg - 1
    /\ windows' = [windows EXCEPT ![x].pc = "exit"]
    /\ UNCHANGED <<bounds, ssimPc, spawnPc, spawnX, chClosed, ssimN, received,
                   ssimResult, vars, rvars, lvars, svars, gvars>>

\* the range loop ends at the closed channel: return sum / float64(n), nil
SsimReturn ==
    /\ ssimPc = "range"
    /\ chClosed
    /\ ssimResult' = Similarity(IF ssimN = 0 THEN "NaN" ELSE "sum/n", "none")
    /\ ssimPc' = "done"
    /\ UNCHANGED <<bounds, spawnPc, spawnX, wg, chClosed, windows, ssimN, received,
                   vars, rvars, lvars, svars, gvars>>

\* the goroutines there can be
Columns == 1..(MaxSide - kernelSize)

SsimNext ==
    \/ SsimReject
    \/ SsimStart
    \/ Spawn
    \/ SpawnWait
    \/ WaitAndClose
    \/ \E x \in Columns : Window(x)
    \/ \E x \in Columns : WindowsDone(x)
    \/ \E x \in Columns : Receive(x)
    \/ \E x \in Columns : Done(x)
    \/ SsimReturn

SsimSpec == SsimInit /\ [][SsimNext]_<<qvars, vars, rvars, lvars, svars, gvars>>

\* SSIM has returned
SsimDone == ssimPc = "done"

\* a goroutine that can run does run: whenever one of them can take a step,
\* a step is taken
SsimFairSpec == SsimSpec /\ WF_<<qvars, vars, rvars, lvars, svars, gvars>>(SsimNext)

\* ---- C38: the goroutines of SSIM
\* the images passed the two checks
Accepted ==
    /\ bounds[1] = bounds[2]
    /\ Dx(bounds[1]) >= kernelSize /\ Dy(bounds[1]) >= kernelSize

\* the windows the sequential SSIM (internal/prim/ssim.go) counts in n
SequentialWindows ==
    { <<x, y>> \in (0..(Dx(bounds[1]) - kernelSize - 1))
                     \X (0..(Dy(bounds[1]) - kernelSize - 1)) : TRUE }

\* the goroutines the loop over x starts
AllColumns == 1..(Dx(bounds[1]) - kernelSize)

\* the channel is closed after every goroutine has sent and called wg.Done;
\* when SSIM has returned it has taken the item of every goroutine, and n is
\* the number of windows of the sequential version
ChannelAndCount ==
    Accepted =>
       /\ DOMAIN windows \subseteq AllColumns
       /\ received \subseteq DOMAIN windows
       /\ chClosed =>
             /\ DOMAIN windows = AllColumns
             /\ received = AllColumns
             /\ \A x \in AllColumns : windows[x].pc = "exit"
       /\ SsimDone =>
             /\ chClosed
             /\ ssimN = Cardinality(SequentialWindows)
             /\ ssimN = (Dx(bounds[1]) - kernelSize) * (Dy(bounds[1]) - kernelSize)

\* a goroutine sends once, and the channel stays closed
SendOnceCloseOnce ==
    /\ \A x \in Columns : (x \in received' /\ x \notin received) => InColumn(x, "send")
    /\ \A x \in Columns : (x \in received) => (x \in received' /\ ~InColumn(x, "send"))
    /\ chClosed => chClosed'

\* some goroutine can take a step
CanStep == ENABLED <<SsimNext>>_<<qvars, vars, rvars, lvars, svars, gvars>>

\* SSIM returns for all images, no state before that is a deadlock, and the
\* goroutines use the channel as ChannelAndCount and SendOnceCloseOnce say
ParallelCountsAsSequential ==
    /\ []ChannelAndCount
    /\ [][SendOnceCloseOnce]_<<qvars, vars, rvars, lvars, svars, gvars>>
    /\ [](~SsimDone => CanStep)
    /\ <>SsimDone

\* C38: SSIM returns without a deadlock; for images that pass the checks
\* W-11 goroutines send one item each, the channel is closed once and after
\* all of them have sent, the range loop takes all W-11 items, and the n it
\* adds up is the n of the sequential version, (W-11)*(H-11), which is at
\* least 1.
C38_AsStated ==
    /\ ParallelCountsAsSequential
    /\ []((SsimDone /\ Accepted) => ssimN >= 1)

\* SSIM of two images of 11 x 13 pixels has returned NaN and no error
NotANumber ==
    /\ SsimDone
    /\ bounds = <<<<kernelSize, 13>>, <<kernelSize, 13>>>>
    /\ ssimResult = Similarity("NaN", "none")
    /\ windows = <<>>

\* SSIM of two images of 13 x 13 pixels has returned after two goroutines
\* counted two windows each
FourWindows ==
    /\ SsimDone
    /\ bounds = <<<<13, 13>>, <<13, 13>>>>
    /\ ssimN = 4
    /\ received = {1, 2}
    /\ ssimResult = Similarity("sum/n", "none")

\* ------------------------------------------- the one stack of the EvalState
\* the ray of the camera along the axis
AxisRay == Ray(ZeroVec, Vec3(Zero, Zero, One))

\* closestHit asked the far sphere first, whose surface function left a
\* point; the front sphere, asked after it, took the point as its colour and
\* is the hit
BorrowedColour ==
    /\ given = BorrowingScene(1)
    /\ AtPc("hit")
    /\ active.ray = AxisRay
    /\ active.hit.Object = 7
    /\ active.hit.T = Rat(1, 2)
    /\ active.hit.Material.Color = Vec3(Zero, Zero, One)
    /\ Stack = <<>>

\* on the shadow ray the sphere behind the camera left a point which the
\* occluder took as its colour: the light is occluded and the front sphere
\* has its ambient colour only
BorrowedShadow ==
    /\ given = BorrowingShadowScene(1)
    /\ calls = <<>>
    /\ renderPc = "loop"
    /\ result = Fresh(Vec3(Rat(1, 4), Rat(1, 8), Zero))
    /\ Stack = <<>>

\* the first of two lights at the same place is occluded and the second is
\* not: the occluder found the point the far sphere left for the first
\* shadow ray only
SecondLightShines ==
    /\ given = TwoLightScene(1)
    /\ calls = <<>>
    /\ renderPc = "loop"
    /\ result = Fresh(Vec3(One, Rat(5, 8), Rat(1, 4)))
    /\ Stack = <<>>

\* closestHit asked the far sphere first, whose surface function failed in
\* Eval and left its three inputs; the front sphere, asked after it on the
\* same EvalState, evaluated its own and is the hit
HitAfterFailure ==
    /\ given = FailingFirstScene(Unbound, 1)
    /\ AtPc("hit")
    /\ active.ray = AxisRay
    /\ active.hit.Object = 7
    /\ active.hit.T = Rat(1, 2)
    /\ active.hit.Material.Color.X = One
    /\ active.hit.Material.Kd = Rat(1, 2)
    /\ Len(Stack) = 3
    /\ Stack[1] = VInt(0)

\* on the shadow ray the surface function of the sphere behind the camera
\* failed in Eval and that of the occluder, asked after it, did not: the
\* light is occluded and the front sphere has its ambient colour only
ShadowAfterFailure ==
    /\ given = FailingShadowScene(Unbound, 1)
    /\ calls = <<>>
    /\ renderPc = "loop"
    /\ result = Fresh(Vec3(Rat(1, 4), Rat(1, 8), Zero))
    /\ Len(Stack) >= 3
====
